---- MODULE Spec2Model ----
(***************************************************************************)
(* Model of the Meteora DLMM bid-ask rebalancer and its value tracker.     *)
(*                                                                         *)
(*   src/src/scripts/bidAskRebalancer.ts          (Node rebalancer)        *)
(*   src/cloudflare-bot/src/services/rebalancer.ts (Workers rebalancer)    *)
(*   src/src/services/valueTracker.ts             (SQLite value tracker)   *)
(*                                                                         *)
(* Numbers.  Token amounts are raw integer units (lamports).  Prices and   *)
(* valuations are JavaScript doubles in the source; here they are exact    *)
(* integers or integer fractions and every comparison of the source is     *)
(* carried out by cross-multiplication, so "a > b * 1.1" is                *)
(* "10 * a > 11 * b".  Time is counted in minutes.                         *)
(***************************************************************************)
EXTENDS Integers, Sequences, FiniteSets, Bags, TLC

VARIABLES
    \* ---- decision engine under test (pure functions) ----
    position,       \* PositionState handed to checkRebalanceNeeded
    currentPrice,   \* activeBin.pricePerToken handed to checkRebalanceNeeded
    decision,       \* result of bidAskRebalancer.ts checkRebalanceNeeded
    decisionCF,     \* result of cloudflare-bot rebalancer.ts checkRebalanceNeeded
    mono,           \* results of isAscending/isDescendingDistribution, per token
    \* ---- the monitoring loop of the Node rebalancer ----
    chain,          \* the pool: per position its bins (the external position source)
    activePrice,    \* the pool: price of the active bin
    isRunning,      \* BidAskRebalancer.isRunning
    intervalId,     \* TRUE while the setInterval timer and the signal handlers are installed
    exited,         \* TRUE once process.exit was called
    tick,           \* the invocations of the tick body in flight, each at an await
    operations,     \* table operations, as a bag of rows
    positionStates, \* BidAskRebalancer.positionStates: lastAction per position
    redeploy,       \* per position: what became of a rebalance whose phase 2 failed
    fires,          \* number of setInterval callbacks so far
    fees,           \* the pool: per position its unclaimed swap fees (feeX, feeY)
    accumulated_fees, \* table accumulated_fees: position_key -> (fee_x, fee_y)
    claimed_fees,   \* table claimed_fees, rows in insertion order
    claimChecked,   \* lastClaimCheckDate is today
    claimlog,       \* what the claim pass did with each position it went through
    \* ---- the SQLite value tracker (valueTracker.ts, class ValueTracker) ----
    now,                    \* Date.now() at the latest call, in minutes
    lastSnapshotTime,       \* ValueTracker.lastSnapshotTime
    lastSnapshot,           \* ValueTracker.lastSnapshot (in-memory latest snapshot)
    lastSolRatios,          \* ValueTracker.lastSolRatios
    snapshots,              \* table snapshots, rows in insertion order
    daily_pnl,              \* table daily_pnl, rows in insertion order
    position_price_history, \* table position_price_history, rows in insertion order
    call,                   \* the latest takeSnapshot call: its arguments and its outcome
    calls,                  \* log of the takeSnapshot calls: time, row written, total value
    apyCall,                \* the latest calculateAPY call: its argument and its result
    feeApyCall,             \* the latest calculateFeeAPY call: its arguments and its result
    instance,               \* number of ValueTracker instances constructed on the store so far
    \* ---- the units outside the rebalancer and its tracker ----
    conversion,             \* a call of toNumber: its argument and what came of it
    bidask,                 \* strategy bot: the BidAskStrategy object and its execute call in flight
    trend,                  \* strategy bot: the TrendStrategy object
    insurance,              \* strategy bot: the InsuranceStrategy object
    bot,                    \* strategy bot: the DLMMBot object and its executionLoop
    worker                  \* Cloudflare Workers variant: the D1 tables and the invocations so far

\* the variables of the other units, which no step of the rebalancer, of its
\* tracker or of the decision engine changes
unitVars == <<conversion, bidask, trend, insurance, bot, worker>>

\* the variables of the three parts of the model above
mainVars == <<position, currentPrice, decision, decisionCF, mono,
              chain, activePrice, isRunning, intervalId, exited, tick, operations,
              positionStates, redeploy, fires,
              fees, accumulated_fees, claimed_fees, claimChecked, claimlog,
              now, lastSnapshotTime, lastSnapshot, lastSolRatios, snapshots, daily_pnl,
              position_price_history, call, calls, apyCall, feeApyCall, instance>>

decVars == <<position, currentPrice, decision, decisionCF, mono, unitVars>>

feeVars == <<fees, accumulated_fees, claimed_fees, claimChecked, claimlog>>

loopVars == <<chain, activePrice, isRunning, intervalId, exited, tick, operations,
              positionStates, redeploy, fires,
              fees, accumulated_fees, claimed_fees, claimChecked, claimlog>>

\* the loop's variables without the table operations, which the tracker writes
loopRest == <<chain, activePrice, isRunning, intervalId, exited, tick,
              positionStates, redeploy, fires,
              fees, accumulated_fees, claimed_fees, claimChecked, claimlog>>

trackVars == <<now, lastSnapshotTime, lastSnapshot, lastSolRatios, snapshots, daily_pnl,
               position_price_history, call, calls, apyCall, feeApyCall, instance>>

vars == <<position, currentPrice, decision, decisionCF, mono,
          chain, activePrice, isRunning, intervalId, exited, tick, operations,
          positionStates, redeploy, fires,
          fees, accumulated_fees, claimed_fees, claimChecked, claimlog,
          now, lastSnapshotTime, lastSnapshot, lastSolRatios, snapshots, daily_pnl,
          position_price_history, call, calls, apyCall, feeApyCall, instance,
          conversion, bidask, trend, insurance, bot, worker>>

-----------------------------------------------------------------------------
(* Bounds of the model *)

\* largest number of bins in a position handed to the decision engine
MaxBins == 3

\* largest number of setInterval callbacks in one run
MaxFires == 2

\* largest number of takeSnapshot calls in one behaviour
MaxCalls == 3

\* largest number of restarts of the process (new ValueTracker on the same store)
MaxRestarts == 1

\* largest number of recorded operations in one behaviour of the tracker
MaxOps == 2

-----------------------------------------------------------------------------
(* Program constants *)

\* CONFIG.REBALANCE_PRICE_DEVIATION_PERCENT = 0.5 (percent), kept in
\* thousandths: threshold = price * (1 +/- 5/1000)
REBALANCE_PRICE_DEVIATION_PERMILLE == 5

\* SNAPSHOT_INTERVAL_MS = 10 * 60 * 1000, in minutes
SNAPSHOT_INTERVAL == 10

\* 24 * 60 * 60 * 1000 ms, one calendar day (UTC), in minutes
DayLength == 1440

\* cleanOldData: snapshots are kept for 30 days
SnapshotRetentionDays == 30

\* cleanOldData: operations are kept for 90 days
OperationRetentionDays == 90

\* CONFIG.CLAIM_FEE_THRESHOLD_USD = 5, in cents
CLAIM_FEE_THRESHOLD_CENTS == 500

\* CONFIG.CLAIM_FEE_MIN_POSITION_USD = 0.1, in cents
CLAIM_FEE_MIN_POSITION_CENTS == 10

\* CONFIG.CLAIM_FEE_AUTO_REINVEST (on unless the environment says "false")
CLAIM_FEE_AUTO_REINVEST == TRUE

-----------------------------------------------------------------------------
(* Inputs of the decision engine *)

\* raw per-bin amounts: 200 -> 220 is exactly the 10% margin, 500 is beyond it
AmountVals == {0, 200, 220, 500}

\* real price of the i-th bin of a position (bins are sorted by price)
BinPrice(i) == 200 * i

\* a position of two bins (prices 200 and 400) holding xs / ys
Bins2(xs, ys) ==
    [i \in 1..2 |-> [price |-> BinPrice(i), xAmount |-> xs[i], yAmount |-> ys[i]]]

\* active prices: around the lower gate (200 * 0.995 = 199) and around the
\* upper gate of a three-bin position (600 * 1.005 = 603)
PriceVals == {198, 199, 603, 604}

\* BinDistribution[] of n bins, already sorted by price (getPositions sorts)
Distributions(n) ==
    { [i \in 1..n |-> [price |-> BinPrice(i), xAmount |-> xs[i], yAmount |-> ys[i]]] :
        xs \in [1..n -> AmountVals], ys \in [1..n -> AmountVals] }

\* the sum computed by Array.prototype.reduce over a slice
RECURSIVE SumAmount(_, _)
SumAmount(dist, token) ==
    IF dist = <<>> THEN 0
    ELSE (IF token = "x" THEN Head(dist).xAmount ELSE Head(dist).yAmount)
         + SumAmount(Tail(dist), token)

\* getPositions: totalX / totalY are the sums over the bins
MakePosition(dist) ==
    [ binDistribution |-> dist,
      totalXAmount    |-> SumAmount(dist, "x"),
      totalYAmount    |-> SumAmount(dist, "y") ]

-----------------------------------------------------------------------------
(* DistributionAnalyzer *)

\* (mutant) the split rounded up instead of down
MidIndex_Ceil(dist) == (Len(dist) + 1) \div 2

\* Math.floor(distribution.length / 2)
MidIndex(dist) == Len(dist) \div 2

\* distribution.slice(0, midIndex)
FirstHalf(dist) == SubSeq(dist, 1, MidIndex(dist))

\* distribution.slice(midIndex)
SecondHalf(dist) == SubSeq(dist, MidIndex(dist) + 1, Len(dist))

\* secondHalfAvg > firstHalfAvg * 1.1, with
\*   avg = sum / length   and both lengths >= 1 because length >= 2
isAscendingDistribution(dist, token) ==
    IF Len(dist) < 2 THEN FALSE
    ELSE 10 * SumAmount(SecondHalf(dist), token) * Len(FirstHalf(dist))
           > 11 * SumAmount(FirstHalf(dist), token) * Len(SecondHalf(dist))

\* the comparison of the half means without strictness
isDescendingDistribution_OrEqual(dist, token) ==
    IF Len(dist) < 2 THEN FALSE
    ELSE 10 * SumAmount(FirstHalf(dist), token) * Len(SecondHalf(dist))
           >= 11 * SumAmount(SecondHalf(dist), token) * Len(FirstHalf(dist))

\* firstHalfAvg > secondHalfAvg * 1.1
isDescendingDistribution(dist, token) ==
    IF Len(dist) < 2 THEN FALSE
    ELSE 10 * SumAmount(FirstHalf(dist), token) * Len(SecondHalf(dist))
           > 11 * SumAmount(SecondHalf(dist), token) * Len(FirstHalf(dist))

-----------------------------------------------------------------------------
(* RebalanceDecisionEngine *)

NoAction == [action |-> "none", amount |-> 0]

\* checkRebalanceNeeded not called yet
Unset == [action |-> "unset", amount |-> 0]

\* the distribution analyzer not called yet
NotAnalyzed == [done |-> FALSE, ascX |-> FALSE, descX |-> FALSE, ascY |-> FALSE, descY |-> FALSE]

\* binDistribution[length - 1]?.price || 0
upperBinPrice(dist) == IF dist = <<>> THEN 0 ELSE dist[Len(dist)].price

\* binDistribution[0]?.price || 0
lowerBinPrice(dist) == IF dist = <<>> THEN 0 ELSE dist[1].price

\* (mutant) the gate lets a price exactly on the threshold through
BidGateBlocks_Strict(pos, price) ==
    1000 * price < upperBinPrice(pos.binDistribution) * (1000 + REBALANCE_PRICE_DEVIATION_PERMILLE)

\* a gate that also holds back a position once a bid was recorded as lastAction
BidGateBlocks_AfterBid(pos, price) ==
    \/ 1000 * price <= upperBinPrice(pos.binDistribution) * (1000 + REBALANCE_PRICE_DEVIATION_PERMILLE)
    \/ \E k \in DOMAIN positionStates : positionStates[k] = "bid"

\* currentPrice <= upperBinPrice * (1 + deviationThreshold)
BidGateBlocks(pos, price) ==
    1000 * price <= upperBinPrice(pos.binDistribution) * (1000 + REBALANCE_PRICE_DEVIATION_PERMILLE)

\* currentPrice >= lowerBinPrice * (1 - deviationThreshold)
AskGateBlocks(pos, price) ==
    1000 * price >= lowerBinPrice(pos.binDistribution) * (1000 - REBALANCE_PRICE_DEVIATION_PERMILLE)

\* (mutant) case 1 forgets to test totalXAmount === 0
checkRebalanceNeeded_NoZeroTest(pos, price) ==
    IF pos.totalYAmount > 0
    THEN IF BidGateBlocks(pos, price) THEN NoAction
         ELSE IF isAscendingDistribution(pos.binDistribution, "y")
              THEN [action |-> "bid", amount |-> pos.totalYAmount]
              ELSE NoAction
    ELSE IF pos.totalYAmount = 0 /\ pos.totalXAmount > 0
    THEN IF AskGateBlocks(pos, price) THEN NoAction
         ELSE IF isDescendingDistribution(pos.binDistribution, "x")
              THEN [action |-> "ask", amount |-> pos.totalXAmount]
              ELSE NoAction
    ELSE NoAction

\* (mutant) case 1 tests the quote distribution in the wrong direction
checkRebalanceNeeded_WrongDirection(pos, price) ==
    IF pos.totalXAmount = 0 /\ pos.totalYAmount > 0
    THEN IF BidGateBlocks(pos, price) THEN NoAction
         ELSE IF isDescendingDistribution(pos.binDistribution, "y")
              THEN [action |-> "bid", amount |-> pos.totalYAmount]
              ELSE NoAction
    ELSE IF pos.totalYAmount = 0 /\ pos.totalXAmount > 0
    THEN IF AskGateBlocks(pos, price) THEN NoAction
         ELSE IF isDescendingDistribution(pos.binDistribution, "x")
              THEN [action |-> "ask", amount |-> pos.totalXAmount]
              ELSE NoAction
    ELSE NoAction

\* (mutant) case 2 redeploys whatever the shape of the base distribution
checkRebalanceNeeded_AskAnyShape(pos, price) ==
    IF pos.totalXAmount = 0 /\ pos.totalYAmount > 0
    THEN IF BidGateBlocks(pos, price) THEN NoAction
         ELSE IF isAscendingDistribution(pos.binDistribution, "y")
              THEN [action |-> "bid", amount |-> pos.totalYAmount]
              ELSE NoAction
    ELSE IF pos.totalYAmount = 0 /\ pos.totalXAmount > 0
    THEN IF AskGateBlocks(pos, price) THEN NoAction
         ELSE [action |-> "ask", amount |-> pos.totalXAmount]
    ELSE NoAction

\* src/src/scripts/bidAskRebalancer.ts checkRebalanceNeeded
checkRebalanceNeeded(pos, price) ==
    IF pos.totalXAmount = 0 /\ pos.totalYAmount > 0
    THEN IF BidGateBlocks(pos, price) THEN NoAction
         ELSE IF isAscendingDistribution(pos.binDistribution, "y")
              THEN [action |-> "bid", amount |-> pos.totalYAmount]
              ELSE NoAction
    ELSE IF pos.totalYAmount = 0 /\ pos.totalXAmount > 0
    THEN IF AskGateBlocks(pos, price) THEN NoAction
         ELSE IF isDescendingDistribution(pos.binDistribution, "x")
              THEN [action |-> "ask", amount |-> pos.totalXAmount]
              ELSE NoAction
    ELSE NoAction

\* src/cloudflare-bot/src/services/rebalancer.ts checkRebalanceNeeded (no gate)
checkRebalanceNeededCF(pos) ==
    IF pos.totalXAmount = 0 /\ pos.totalYAmount > 0
    THEN IF isAscendingDistribution(pos.binDistribution, "y")
         THEN [action |-> "bid", amount |-> pos.totalYAmount]
         ELSE NoAction
    ELSE IF pos.totalYAmount = 0 /\ pos.totalXAmount > 0
    THEN IF isDescendingDistribution(pos.binDistribution, "x")
         THEN [action |-> "ask", amount |-> pos.totalXAmount]
         ELSE NoAction
    ELSE NoAction

-----------------------------------------------------------------------------
(* Valuation (valueTracker.ts, pure parts)                                  *)
(* Raw amounts fed to the tracker are multiples of 10^decimals, so that the *)
(* source's divisions by Math.pow(10, decimals) are exact.                  *)

RECURSIVE Pow10(_)
Pow10(n) == IF n = 0 THEN 1 ELSE 10 * Pow10(n - 1)

RECURSIVE GCD(_, _)
GCD(a, b) == IF b = 0 THEN a ELSE GCD(b, a % b)

\* the quotient n / d of two doubles, d > 0, as a fraction in lowest terms
Frac(n, d) ==
    LET g == GCD(IF n < 0 THEN 0 - n ELSE n, d)
    IN  [num |-> n \div g, den |-> d \div g]

\* the double 0
Zero == [num |-> 0, den |-> 1]

\* null / undefined where the source expects a number
Null == [num |-> 0, den |-> 0]

\* a valuation that adds the base amounts without their bin prices
calculatePositionValue_Unpriced(binDistribution, tokenXDecimals, tokenYDecimals) ==
    LET RECURSIVE X(_)
        X(d) == IF d = <<>> THEN 0
                ELSE (Head(d).xAmount \div Pow10(tokenXDecimals)) + X(Tail(d))
        RECURSIVE Y(_)
        Y(d) == IF d = <<>> THEN 0
                ELSE (Head(d).yAmount \div Pow10(tokenYDecimals)) + Y(Tail(d))
    IN  [totalValueUSD |-> X(binDistribution) + Y(binDistribution),
         xValueUSD     |-> X(binDistribution),
         yValueUSD     |-> Y(binDistribution)]

\* calculatePositionValue
calculatePositionValue(binDistribution, tokenXDecimals, tokenYDecimals) ==
    LET RECURSIVE X(_)
        X(d) == IF d = <<>> THEN 0
                ELSE (Head(d).xAmount \div Pow10(tokenXDecimals)) * Head(d).price + X(Tail(d))
        RECURSIVE Y(_)
        Y(d) == IF d = <<>> THEN 0
                ELSE (Head(d).yAmount \div Pow10(tokenYDecimals)) + Y(Tail(d))
    IN  [totalValueUSD |-> X(binDistribution) + Y(binDistribution),
         xValueUSD     |-> X(binDistribution),
         yValueUSD     |-> Y(binDistribution)]

\* solRatio >= 0.95 and solRatio <= 0.05
AtLeast95(ratio) == 100 * ratio.num >= 95 * ratio.den
AtMost05(ratio) == 100 * ratio.num <= 5 * ratio.den

\* takeSnapshot: solRatio = posValue > 0 ? xValueUSD / posValue : 0
SolRatio(value) ==
    IF value.totalValueUSD > 0 THEN Frac(value.xValueUSD, value.totalValueUSD) ELSE Zero

\* common multiple of the bin prices, to keep yAmount / bin.price exact
PriceScale == BinPrice(1) * BinPrice(2)

\* calculateWeightedAvgPrice: totalValue / totalSOL (0 when totalSOL is 0)
\* and the position type read off solRatio
calculateWeightedAvgPrice(binDistribution, tokenXDecimals, tokenYDecimals, solRatio) ==
    LET RECURSIVE totalValue(_)
        totalValue(d) ==
            IF d = <<>> THEN 0
            ELSE (Head(d).xAmount \div Pow10(tokenXDecimals)) * Head(d).price
                 + (IF Head(d).price > 0 THEN Head(d).yAmount \div Pow10(tokenYDecimals) ELSE 0)
                 + totalValue(Tail(d))
        \* totalSOL * PriceScale
        RECURSIVE totalSOL(_)
        totalSOL(d) ==
            IF d = <<>> THEN 0
            ELSE (Head(d).xAmount \div Pow10(tokenXDecimals)) * PriceScale
                 + (IF Head(d).price > 0
                    THEN (Head(d).yAmount \div Pow10(tokenYDecimals)) * (PriceScale \div Head(d).price)
                    ELSE 0)
                 + totalSOL(Tail(d))
    IN  [avgPrice |-> IF totalSOL(binDistribution) > 0
                      THEN Frac(totalValue(binDistribution) * PriceScale, totalSOL(binDistribution))
                      ELSE Zero,
         positionType |-> IF AtLeast95(solRatio) THEN "ask"
                          ELSE IF AtMost05(solRatio) THEN "bid"
                          ELSE "mixed"]

-----------------------------------------------------------------------------
(* The value tracker (valueTracker.ts, class ValueTracker on SQLite) *)

\* Date.now() when the tracker is constructed: shortly before midnight
\* UTC, so that calls a few minutes apart can fall on two calendar dates
StartClock == 10 * DayLength - 5

\* minutes between two calls: inside the interval, up to its boundary
\* (3 + 7 = SNAPSHOT_INTERVAL), and past the retention of snapshots
Elapsed == {3, 7, SnapshotRetentionDays * DayLength + 1}

\* where a statement of better-sqlite3 throws: nowhere, at the INSERT INTO
\* snapshots, or inside updateDailyPnL
Failures == {"none", "snapshot", "daily_pnl"}

\* an element of the positions argument of takeSnapshot
TrackedPosition(key, xs, ys, feeX, feeY) ==
    [publicKey      |-> key,
     binDistribution |-> Bins2(xs, ys),
     totalXAmount   |-> xs[1] + xs[2],
     totalYAmount   |-> ys[1] + ys[2],
     feeX           |-> feeX,
     feeY           |-> feeY]

\* arguments of takeSnapshot: all quote, all base, withdrawn, and two
\* positions (one mixed, one all quote) on a mint with one decimal
Observations ==
    { [positions |-> <<TrackedPosition("A", <<0, 0>>, <<30, 10>>, 0, 0)>>,
       currentPrice |-> 403, tokenXDecimals |-> 0, tokenYDecimals |-> 0],
      [positions |-> <<TrackedPosition("A", <<10, 30>>, <<0, 0>>, 10, 2)>>,
       currentPrice |-> 198, tokenXDecimals |-> 0, tokenYDecimals |-> 0],
      [positions |-> <<TrackedPosition("A", <<0, 0>>, <<0, 0>>, 0, 0)>>,
       currentPrice |-> 403, tokenXDecimals |-> 0, tokenYDecimals |-> 0],
      [positions |-> <<TrackedPosition("A", <<0, 10>>, <<500, 0>>, 10, 0),
                       TrackedPosition("B", <<0, 0>>, <<10, 30>>, 0, 0)>>,
       currentPrice |-> 300, tokenXDecimals |-> 1, tokenYDecimals |-> 0] }

NoSnapshot == [timestamp |-> 0, totalValueUSD |-> 0, currentPrice |-> 0, positions |-> <<>>]

NoArgs == [positions |-> <<>>, currentPrice |-> 0, tokenXDecimals |-> 0, tokenYDecimals |-> 0]

NoCall == [kind |-> "none", args |-> NoArgs, snapshot |-> NoSnapshot, throttled |-> FALSE]

\* no calculateAPY call yet
NoApy == [days |-> 0, mode |-> "none", lo |-> Zero, hi |-> Zero, base |-> Null, exponent |-> Null]

\* no calculateFeeAPY call yet
NoFeeApy == [days |-> 0, currentTotalValue |-> 0, result |-> Null]

\* new Map()
EmptyMap == [k \in {} |-> Null]

MapSet(m, k, v) == [x \in DOMAIN m \cup {k} |-> IF x = k THEN v ELSE m[x]]

\* getLastPrices: the latest bid and the latest ask row of a position
getLastPrices(history, positionKey) ==
    LET Latest(type) ==
            LET idx == {i \in 1..Len(history) :
                           history[i].position_key = positionKey /\ history[i].price_type = type}
            IN  IF idx = {} THEN Null
                ELSE history[CHOOSE i \in idx : \A j \in idx : j <= i].avg_price
    IN  [lastBidPrice |-> Latest("bid"), lastAskPrice |-> Latest("ask")]

\* recordPositionPrice
recordPositionPrice(history, positionKey, timestamp, priceType, avgPrice, amount) ==
    Append(history, [position_key |-> positionKey, timestamp |-> timestamp,
                     price_type |-> priceType, avg_price |-> avgPrice, amount |-> amount])

\* checkAndRecordPriceChange without the comparison to the last ratio
checkAndRecordPriceChange_IgnoresLast(ratios, history, positionKey, solRatio, avgPrice, xValueUSD, yValueUSD, timestamp) ==
    LET ask == recordPositionPrice(history, positionKey, timestamp, "ask", avgPrice, xValueUSD)
        bid == recordPositionPrice(history, positionKey, timestamp, "bid", avgPrice, yValueUSD)
    IN  [ratios  |-> MapSet(ratios, positionKey, solRatio),
         history |-> IF AtLeast95(solRatio) THEN ask
                     ELSE IF AtMost05(solRatio) THEN bid
                     ELSE history]

\* checkAndRecordPriceChange: the new lastSolRatios and price history
checkAndRecordPriceChange(ratios, history, positionKey, solRatio, avgPrice, xValueUSD, yValueUSD, timestamp) ==
    LET ask == recordPositionPrice(history, positionKey, timestamp, "ask", avgPrice, xValueUSD)
        bid == recordPositionPrice(history, positionKey, timestamp, "bid", avgPrice, yValueUSD)
        recorded ==
            IF positionKey \in DOMAIN ratios
            THEN LET lastRatio == ratios[positionKey]
                 IN  IF AtLeast95(solRatio) /\ ~AtLeast95(lastRatio) THEN ask
                     ELSE IF AtMost05(solRatio) /\ ~AtMost05(lastRatio) THEN bid
                     ELSE history
            ELSE IF AtLeast95(solRatio) THEN ask
                 ELSE IF AtMost05(solRatio) THEN bid
                 ELSE history
    IN  [ratios |-> MapSet(ratios, positionKey, solRatio), history |-> recorded]

MinOf(S) == CHOOSE x \in S : \A y \in S : x <= y
MaxOf(S) == CHOOSE x \in S : \A y \in S : x >= y

\* the for-loop of takeSnapshot over the positions argument: st carries
\* lastSolRatios, the price history and the PositionValue[] built so far
RECURSIVE ValuePositions(_, _, _, _)
ValuePositions(positions, args, st, timestamp) ==
    IF positions = <<>> THEN st
    ELSE LET pos      == Head(positions)
             value    == calculatePositionValue(pos.binDistribution,
                                                args.tokenXDecimals, args.tokenYDecimals)
             prices   == {pos.binDistribution[i].price : i \in 1..Len(pos.binDistribution)}
             feeXUSD  == (pos.feeX \div Pow10(args.tokenXDecimals)) * args.currentPrice
             feeYUSD  == pos.feeY \div Pow10(args.tokenYDecimals)
             solRatio == SolRatio(value)
             avg      == calculateWeightedAvgPrice(pos.binDistribution, args.tokenXDecimals,
                                                   args.tokenYDecimals, solRatio)
             last     == getLastPrices(st.history, pos.publicKey)
             changed  == checkAndRecordPriceChange(st.ratios, st.history, pos.publicKey,
                                                   solRatio, avg.avgPrice,
                                                   value.xValueUSD, value.yValueUSD, timestamp)
             pv == [publicKey       |-> pos.publicKey,
                    valueUSD        |-> value.totalValueUSD,
                    xAmount         |-> pos.totalXAmount,
                    yAmount         |-> pos.totalYAmount,
                    xValueUSD       |-> value.xValueUSD,
                    yValueUSD       |-> value.yValueUSD,
                    priceRange      |-> <<MinOf(prices), MaxOf(prices)>>,
                    binCount        |-> Len(pos.binDistribution),
                    feeX            |-> pos.feeX,
                    feeY            |-> pos.feeY,
                    feeXUSD         |-> feeXUSD,
                    feeYUSD         |-> feeYUSD,
                    totalFeeUSD     |-> feeXUSD + feeYUSD,
                    positionType    |-> avg.positionType,
                    solRatio        |-> solRatio,
                    currentAvgPrice |-> avg.avgPrice,
                    lastBidPrice    |-> last.lastBidPrice,
                    lastAskPrice    |-> last.lastAskPrice]
         IN  ValuePositions(Tail(positions), args,
                            [ratios |-> changed.ratios, history |-> changed.history,
                             values |-> Append(st.values, pv)],
                            timestamp)

\* the solRatio of each position a call has valued
Observed(values) ==
    LET idx(k) == CHOOSE i \in 1..Len(values) : values[i].publicKey = k
    IN  [k \in {values[i].publicKey : i \in 1..Len(values)} |-> values[idx(k)].solRatio]

\* the position and price type of the rows of the price history h above row n
Recorded(h, n) == {<<h[i].position_key, h[i].price_type>> : i \in (n + 1)..Len(h)}

RECURSIVE SumValueUSD(_)
SumValueUSD(values) ==
    IF values = <<>> THEN 0 ELSE Head(values).valueUSD + SumValueUSD(Tail(values))

\* (mutant) the throttle lets a write through after half an interval
ThrottleSkips_HalfInterval(timeSinceLastSnapshot) ==
    2 * timeSinceLastSnapshot < SNAPSHOT_INTERVAL

\* takeSnapshot, the throttle test: timeSinceLastSnapshot < SNAPSHOT_INTERVAL_MS
ThrottleSkips(timeSinceLastSnapshot) == timeSinceLastSnapshot < SNAPSHOT_INTERVAL

\* (mutant) a throttled call hands back the snapshot cached in memory
ReturnedSnapshot_CachedWhenThrottled(snapshot, cached, throttled) ==
    IF throttled /\ cached # NoSnapshot THEN cached ELSE snapshot

\* takeSnapshot, what it returns: the snapshot it has just computed, on the
\* throttled path as on the persisting path
ReturnedSnapshot(snapshot, cached, throttled) == snapshot

\* cleanOldData, table snapshots
cleanOldData(rows, t) ==
    SelectSeq(rows, LAMBDA r : ~(r.timestamp < t - SnapshotRetentionDays * DayLength))

\* cleanOldData, table operations
cleanOldOperations(ops, t) ==
    [r \in {o \in DOMAIN ops : ~(o.timestamp < t - OperationRetentionDays * DayLength)} |-> ops[r]]

\* (mutant) the pnl of an update is taken the wrong way round
UpdatedPnL_Reversed(totalValueUSD, todayRecord) == todayRecord.open_value - totalValueUSD

\* updateDailyPnL, else-branch: pnl = snapshot.totalValueUSD - todayRecord.open_value
UpdatedPnL(totalValueUSD, todayRecord) == totalValueUSD - todayRecord.open_value

\* the high of the day left at its first value
HighValue_KeepsFirst(high_value, totalValueUSD) == high_value

\* updateDailyPnL, else-branch: Math.max(todayRecord.high_value, snapshot.totalValueUSD)
HighValue(high_value, totalValueUSD) ==
    IF totalValueUSD > high_value THEN totalValueUSD ELSE high_value

\* updateDailyPnL, else-branch: Math.min(todayRecord.low_value, snapshot.totalValueUSD)
LowValue(low_value, totalValueUSD) ==
    IF totalValueUSD < low_value THEN totalValueUSD ELSE low_value

\* updateDailyPnL: insert the row of a new date or update today's row
updateDailyPnL(rows, totalValueUSD, today) ==
    LET todayIdx == {i \in 1..Len(rows) : rows[i].date = today}
        Percent(pnl, openValue) == IF openValue > 0 THEN Frac(pnl * 100, openValue) ELSE Zero
    IN  IF todayIdx = {}
        THEN LET latest == IF rows = <<>> THEN 0
                           ELSE CHOOSE i \in 1..Len(rows) :
                                    \A j \in 1..Len(rows) : rows[j].date <= rows[i].date
                 \* yesterday?.close_value || snapshot.totalValueUSD
                 openValue == IF latest # 0 /\ rows[latest].close_value # 0
                              THEN rows[latest].close_value
                              ELSE totalValueUSD
                 pnl == totalValueUSD - openValue
             IN  Append(rows, [date |-> today, open_value |-> openValue,
                               close_value |-> totalValueUSD, high_value |-> totalValueUSD,
                               low_value |-> totalValueUSD, pnl |-> pnl,
                               pnl_percent |-> Percent(pnl, openValue), operations |-> 0])
        ELSE LET i   == CHOOSE j \in todayIdx : TRUE
                 old == rows[i]
                 pnl == UpdatedPnL(totalValueUSD, old)
             IN  [rows EXCEPT ![i] =
                    [old EXCEPT !.close_value = totalValueUSD,
                                !.high_value = HighValue(@, totalValueUSD),
                                !.low_value = LowValue(@, totalValueUSD),
                                !.pnl = pnl,
                                !.pnl_percent = Percent(pnl, old.open_value)]]

\* the tracker and its database before the first construction
TrackInit ==
    /\ now = StartClock
    /\ lastSnapshotTime = 0
    /\ lastSnapshot = NoSnapshot
    /\ lastSolRatios = EmptyMap
    /\ snapshots = <<>>
    /\ daily_pnl = <<>>
    /\ position_price_history = <<>>
    /\ call = NoCall
    /\ calls = <<>>
    /\ instance = 1
    /\ apyCall = NoApy
    /\ feeApyCall = NoFeeApy

\* the for-loop of takeSnapshot deferred until after the throttle test
LoopEffects_OnlyWhenDue(done, before, throttled) == IF throttled THEN before ELSE done

\* takeSnapshot runs its for-loop (lastSolRatios.set, recordPositionPrice)
\* before the throttle test: its effects are those of the loop in every call
LoopEffects(done, before, throttled) == done

\* takeSnapshot(positions, currentPrice, tokenXDecimals, tokenYDecimals),
\* called dt minutes after the previous call
takeSnapshot(args, dt, fail) ==
    /\ Len(calls) < MaxCalls
    /\ \E timestamp \in {now + dt} :
       \E done \in {ValuePositions(args.positions, args,
                                   [ratios |-> lastSolRatios,
                                    history |-> position_price_history,
                                    values |-> <<>>],
                                   timestamp)} :
       \E totalValueUSD \in {SumValueUSD(done.values)} :
       LET snapshot      == [timestamp |-> timestamp, totalValueUSD |-> totalValueUSD,
                             currentPrice |-> args.currentPrice, positions |-> done.values]
           throttled     == ThrottleSkips(timestamp - lastSnapshotTime)
           inserted      == ~throttled /\ fail # "snapshot"
           completed     == inserted /\ fail # "daily_pnl"
           row           == [timestamp |-> timestamp, total_value_usd |-> totalValueUSD,
                             current_price |-> args.currentPrice, positions |-> done.values]
           tracked       == LoopEffects(done, [ratios |-> lastSolRatios,
                                                history |-> position_price_history],
                                         throttled)
       IN  /\ now' = timestamp
           /\ lastSolRatios' = tracked.ratios
           /\ position_price_history' = tracked.history
           /\ lastSnapshot' = snapshot
           /\ lastSnapshotTime' = IF inserted THEN timestamp ELSE lastSnapshotTime
           /\ snapshots' = IF completed THEN cleanOldData(Append(snapshots, row), timestamp)
                           ELSE IF inserted THEN Append(snapshots, row)
                           ELSE snapshots
           /\ daily_pnl' = IF completed
                           THEN updateDailyPnL(daily_pnl, totalValueUSD, timestamp \div DayLength)
                           ELSE daily_pnl
           /\ call' = IF throttled \/ completed
                      THEN [kind |-> "returned", args |-> args,
                            snapshot |-> ReturnedSnapshot(snapshot, lastSnapshot, throttled),
                            throttled |-> throttled]
                      ELSE [kind |-> "threw", args |-> args, snapshot |-> NoSnapshot,
                            throttled |-> FALSE]
           /\ operations' = IF completed THEN cleanOldOperations(operations, timestamp)
                             ELSE operations
           /\ calls' = Append(calls, [time |-> timestamp, wrote |-> inserted,
                                      totalValueUSD |-> totalValueUSD,
                                      upserted |-> completed, instance |-> instance,
                                      ratios |-> Observed(done.values),
                                      recorded |-> Recorded(tracked.history,
                                                            Len(position_price_history))])
    /\ UNCHANGED <<instance, apyCall, feeApyCall>>
    /\ UNCHANGED <<decVars, loopRest>>

\* a constructor that leaves lastSnapshotTime at its initial value
LatestSnapshotTime_NotLoaded(rows) == 0

\* constructor: SELECT timestamp FROM snapshots ORDER BY timestamp DESC LIMIT 1,
\* lastSnapshotTime keeps its initial 0 when there is no row
LatestSnapshotTime(rows) ==
    IF rows = <<>> THEN 0 ELSE MaxOf({rows[i].timestamp : i \in 1..Len(rows)})

\* new ValueTracker(dataDir) on the store an earlier instance has written:
\* lastSnapshotTime is loaded from the latest row of snapshots, the rest of
\* the instance (lastSnapshot, lastSolRatios) starts empty
Restart ==
    /\ instance <= MaxRestarts
    /\ calls # <<>>
    /\ instance' = instance + 1
    /\ lastSnapshotTime' = LatestSnapshotTime(snapshots)
    /\ lastSnapshot' = NoSnapshot
    /\ lastSolRatios' = EmptyMap
    /\ call' = NoCall
    /\ UNCHANGED <<now, snapshots, daily_pnl, position_price_history, calls>>
    /\ UNCHANGED <<apyCall, feeApyCall>>
    /\ UNCHANGED <<decVars, loopVars>>

\* minutes between the previous call of the tracker and a recordOperation
OperationElapsed == {3, DayLength}

\* the rows of operations with a timestamp of the date `today`
OperationsOn(ops, today) ==
    LET rows == {o \in DOMAIN ops : o.timestamp \div DayLength = today}
        RECURSIVE Count(_)
        Count(R) == IF R = {} THEN 0
                    ELSE LET r == CHOOSE o \in R : TRUE
                         IN  ops[r] + Count(R \ {r})
    IN  Count(rows)

\* recordOperation: INSERT INTO operations, count today's operations,
\* UPDATE daily_pnl SET operations = count WHERE date = today
recordOperation(positionKey, action, beforeValueUSD, afterValueUSD, amountProcessed, dt) ==
    /\ BagCardinality(operations) < MaxOps
    /\ \E timestamp \in {now + dt} :
       LET row   == [timestamp |-> timestamp, positionKey |-> positionKey, action |-> action,
                     beforeValueUSD |-> beforeValueUSD, afterValueUSD |-> afterValueUSD,
                     amountProcessed |-> amountProcessed]
           ops   == operations (+) SetToBag({row})
           today == timestamp \div DayLength
       IN  /\ now' = timestamp
           /\ operations' = ops
           /\ daily_pnl' = [i \in 1..Len(daily_pnl) |->
                               IF daily_pnl[i].date = today
                               THEN [daily_pnl[i] EXCEPT !.operations = OperationsOn(ops, today)]
                               ELSE daily_pnl[i]]
    /\ UNCHANGED <<lastSnapshotTime, lastSnapshot, lastSolRatios, snapshots,
                   position_price_history, call, calls, apyCall, feeApyCall, instance>>
    /\ UNCHANGED <<decVars, loopRest>>

-----------------------------------------------------------------------------
(* The pool and the monitoring loop (bidAskRebalancer.ts start / tick body) *)

\* the wallet's positions, in the order getPositionsByUserAndLbPair lists them
KeySeq == <<"A", "B">>
Keys == {KeySeq[i] : i \in 1..Len(KeySeq)}

\* active prices of the pool: below the lower gate (200 * 0.995 = 199) and
\* above the upper gate (400 * 1.005 = 402) of the positions' range
LoopPrices == {198, 403}

\* removeLiquidity of 100% (bps 10000) without closing: the bins stay, empty
Withdrawn(dist) == [i \in 1..Len(dist) |-> [dist[i] EXCEPT !.xAmount = 0, !.yAmount = 0]]

\* StrategyType.BidAsk, single-sided: a quote deposit puts more into the
\* lower-priced bin, a base deposit more into the higher-priced bin
BidAskShape(dist, side, amount) ==
    LET small == amount \div 4
        big   == amount - small
    IN  IF side = "bid"
        THEN [i \in 1..Len(dist) |->
                [dist[i] EXCEPT !.yAmount = @ + (IF i = 1 THEN big ELSE IF i = Len(dist) THEN small ELSE 0)]]
        ELSE [i \in 1..Len(dist) |->
                [dist[i] EXCEPT !.xAmount = @ + (IF i = 1 THEN small ELSE IF i = Len(dist) THEN big ELSE 0)]]

\* decimals of the two mints (initialize() reads them from the mint
\* accounts): base amounts are whole tokens, quote amounts are cents
poolXDecimals == 0
poolYDecimals == 2

\* calculatePositionValue(...).totalValueUSD as checkAndRebalance calls it
PositionValueUSD(dist) ==
    calculatePositionValue(dist, poolXDecimals, poolYDecimals).totalValueUSD

\* (feeX / 10^decimals) * currentPrice + feeY / 10^decimals, in cents
FeeCents(feeX, feeY, price) ==
    (feeX * price * 100) \div Pow10(poolXDecimals) + (feeY * 100) \div Pow10(poolYDecimals)

\* (mutant) the claim pass needs the aggregate strictly above the threshold
BelowClaimThreshold_OrEqual(totalFeeCents) == totalFeeCents <= CLAIM_FEE_THRESHOLD_CENTS

\* checkAndClaimFees: totalFeeUSD < CONFIG.CLAIM_FEE_THRESHOLD_USD, return
BelowClaimThreshold(totalFeeCents) == totalFeeCents < CLAIM_FEE_THRESHOLD_CENTS

\* (mutant) a position exactly at the minimum is skipped as well
ClaimSkips_AtMinimum(posFeeCents) == posFeeCents <= CLAIM_FEE_MIN_POSITION_CENTS

\* checkAndClaimFees: posFeeUSD < CONFIG.CLAIM_FEE_MIN_POSITION_USD, continue
ClaimSkips(posFeeCents) == posFeeCents < CLAIM_FEE_MIN_POSITION_CENTS

\* recordClaimedFee (tx_signature left out; the USD columns in cents)
recordClaimedFee(rows, positionKey, claimedX, claimedY, price) ==
    Append(rows, [timestamp |-> now,
                  position_key |-> positionKey, claimed_x |-> claimedX, claimed_y |-> claimedY,
                  claimed_x_usd |-> FeeCents(claimedX, 0, price),
                  claimed_y_usd |-> FeeCents(0, claimedY, price),
                  total_claimed_usd |-> FeeCents(claimedX, claimedY, price),
                  price_at_claim |-> price])

\* (mutant) every claim is accumulated twice
accumulateFees_Twice(ledger, positionKey, feeX, feeY) ==
    IF positionKey \in DOMAIN ledger
    THEN [ledger EXCEPT ![positionKey] = [fee_x |-> @.fee_x + 2 * feeX, fee_y |-> @.fee_y + 2 * feeY]]
    ELSE MapSet(ledger, positionKey, [fee_x |-> 2 * feeX, fee_y |-> 2 * feeY])

\* accumulateFees: update the row of the position or insert it
accumulateFees(ledger, positionKey, feeX, feeY) ==
    IF positionKey \in DOMAIN ledger
    THEN [ledger EXCEPT ![positionKey] = [fee_x |-> @.fee_x + feeX, fee_y |-> @.fee_y + feeY]]
    ELSE MapSet(ledger, positionKey, [fee_x |-> feeX, fee_y |-> feeY])

\* getAllAccumulatedFees and the sums executeRebalance takes over its rows
TotalAccFee(ledger, column) ==
    LET RECURSIVE S(_)
        S(K) == IF K = {} THEN 0
                ELSE LET k == CHOOSE j \in K : TRUE
                     IN  ledger[k][column] + S(K \ {k})
    IN  S(DOMAIN ledger)

\* what executeRebalance reads from the ledger before it adds liquidity
NoAcc == [x |-> 0, y |-> 0, rows |-> FALSE]

ReadAccumulated(ledger) ==
    IF CLAIM_FEE_AUTO_REINVEST /\ DOMAIN ledger # {}
    THEN [x |-> TotalAccFee(ledger, "fee_x"), y |-> TotalAccFee(ledger, "fee_y"), rows |-> TRUE]
    ELSE [x |-> 0, y |-> 0, rows |-> DOMAIN ledger # {}]

\* the accumulated fees folded into the amount of addLiquidityByStrategy
Folded(action, acc) ==
    IF ~CLAIM_FEE_AUTO_REINVEST THEN 0
    ELSE IF action = "bid" THEN acc.y
    ELSE acc.x

\* (mutant) clearing the quote fees wipes the base fees of the rows too
clearAllAccumulatedFeeY_BothTokens(ledger) ==
    [k \in DOMAIN ledger |-> [fee_x |-> 0, fee_y |-> 0]]

\* clearAllAccumulatedFeeX, clearAllAccumulatedFeeY
clearAllAccumulatedFeeX(ledger) == [k \in DOMAIN ledger |-> [ledger[k] EXCEPT !.fee_x = 0]]
clearAllAccumulatedFeeY(ledger) == [k \in DOMAIN ledger |-> [ledger[k] EXCEPT !.fee_y = 0]]

\* cleanupEmptyAccumulatedFees
cleanupEmptyAccumulatedFees(ledger) ==
    [k \in {j \in DOMAIN ledger : ~(ledger[j].fee_x = 0 /\ ledger[j].fee_y = 0)} |-> ledger[k]]

\* executeRebalance after the add transactions are confirmed: clear the
\* accumulated fees of the token that was reinvested
ClearReinvested(ledger, action, acc) ==
    IF CLAIM_FEE_AUTO_REINVEST /\ acc.rows
    THEN IF action = "bid" /\ acc.y > 0
         THEN cleanupEmptyAccumulatedFees(clearAllAccumulatedFeeY(ledger))
         ELSE IF action = "ask" /\ acc.x > 0
         THEN cleanupEmptyAccumulatedFees(clearAllAccumulatedFeeX(ledger))
         ELSE ledger
    ELSE ledger

\* the pool as the loop finds it: the price has left the positions' range
\* upwards (every bin sold into quote) or downwards (every bin bought into
\* base); a position is then the result of an ask (quote ascending) or of a
\* bid (base descending) and due for redeployment, or already redeployed
PoolStates ==
    { [price |-> 403, chain |-> [k \in Keys |-> Bins2(<<0, 0>>, ys[k])]] :
        ys \in [Keys -> {<<1000, 3000>>, <<3000, 1000>>}] }
    \cup
    { [price |-> 198, chain |-> [k \in Keys |-> Bins2(xs[k], <<0, 0>>)]] :
        xs \in [Keys -> {<<30, 10>>, <<10, 30>>}] }

\* invocations of checkAndRebalance: 0 is the one start() awaits, i >= 1 is
\* the one made by the i-th setInterval callback
TickIds == 0..MaxFires

\* pos holds the observed positions the for-loop has not reached yet, idx is
\* the index of the position being rebalanced (or claimed), acc is what
\* executeRebalance has read from the accumulated fees, total is the
\* totalFeeUSD (in cents) of a claim pass
IdleTick ==
    [pc |-> "idle", pos |-> <<>>, price |-> 0, idx |-> 0, act |-> NoAction, before |-> 0,
     acc |-> NoAcc, total |-> 0]

\* the for-loop of checkAndRebalance run from index `from` up to its next
\* await: positions without action are passed over synchronously; the first
\* one with an action enters executeRebalance (await getPositionsByUser...)
RECURSIVE RunLoop(_, _, _)
RunLoop(pos, price, from) ==
    IF pos = <<>> THEN IdleTick
    ELSE LET action == checkRebalanceNeeded(Head(pos), price)
         IN  IF action = NoAction THEN RunLoop(Tail(pos), price, from + 1)
             ELSE [pc |-> "remove", pos |-> Tail(pos), price |-> price, idx |-> from,
                   act |-> action, before |-> PositionValueUSD(Head(pos).binDistribution),
                   acc |-> NoAcc, total |-> 0]

\* (mutant) a failed rebalance ends the tick
AfterFailure_EndsTick(r) == IdleTick

\* executeRebalance has caught a throw and returned false: the for-loop of
\* checkAndRebalance goes on with the position after the failed one
AfterFailure(r) == RunLoop(r.pos, r.price, r.idx + 1)

\* start(): once the awaited first checkAndRebalance (tick 0) has returned,
\* setInterval and the SIGINT/SIGTERM handlers are installed
Armed(t, next) == intervalId \/ (t = 0 /\ next.pc = "idle")

\* what the next observation of the pool finds for a position whose phase 1
\* succeeded and whose phase 2 failed ("pending"): "retriable" when exactly
\* one of its totals is 0 and the other > 0, "stuck" otherwise
Reobserved(pos) ==
    [k \in Keys |->
        IF redeploy[k] # "pending" THEN redeploy[k]
        ELSE LET i == CHOOSE j \in 1..Len(KeySeq) : KeySeq[j] = k
             IN  IF (pos[i].totalXAmount = 0) # (pos[i].totalYAmount = 0)
                 THEN "retriable" ELSE "stuck"]

\* the rebalancer as constructed, before start()
Constructed ==
    /\ isRunning = FALSE
    /\ intervalId = FALSE
    /\ exited = FALSE
    /\ tick = [t \in TickIds |-> IdleTick]
    /\ operations = EmptyBag
    /\ positionStates = [k \in Keys |-> "none"]
    /\ redeploy = [k \in Keys |-> "none"]
    /\ fires = 0
    /\ claimChecked = FALSE
    /\ claimlog = <<>>

\* no swap fees earned, none claimed so far
NoFees ==
    /\ fees = [k \in Keys |-> [feeX |-> 0, feeY |-> 0]]
    /\ accumulated_fees = EmptyMap
    /\ claimed_fees = <<>>

LoopInit ==
    /\ \E pool \in PoolStates :
        /\ chain = pool.chain
        /\ activePrice = pool.price
    /\ Constructed
    /\ NoFees

\* start(): initialize, isRunning = true, await checkAndRebalance()
Start ==
    /\ ~exited /\ ~isRunning /\ ~intervalId
    /\ isRunning' = TRUE
    /\ tick' = [tick EXCEPT ![0] = [IdleTick EXCEPT !.pc = "observe"]]
    /\ UNCHANGED <<chain, activePrice, intervalId, exited, operations, positionStates,
                   redeploy, fires>>
    /\ UNCHANGED feeVars
    /\ UNCHANGED <<decVars, trackVars>>

\* the setInterval callback outside the daily fee-claim hour
\* (shouldCheckClaimFees() is false): if (isRunning) await checkAndRebalance();
\* it is called every MONITOR_INTERVAL_MS whether or not an earlier call has
\* returned
TimerFire ==
    /\ ~exited /\ intervalId /\ isRunning
    /\ fires < MaxFires
    /\ fires' = fires + 1
    /\ tick' = [tick EXCEPT ![fires + 1] = [IdleTick EXCEPT !.pc = "observe"]]
    /\ UNCHANGED <<chain, activePrice, isRunning, intervalId, exited, operations,
                   positionStates, redeploy>>
    /\ UNCHANGED feeVars
    /\ UNCHANGED <<decVars, trackVars>>

\* the setInterval callback in the daily fee-claim hour: shouldCheckClaimFees()
\* is true once a day and marks the day; the callback awaits
\* checkAndClaimFees() and then checkAndRebalance()
TimerFireClaim ==
    /\ ~exited /\ intervalId /\ isRunning
    /\ fires < MaxFires
    /\ ~claimChecked
    /\ claimChecked' = TRUE
    /\ fires' = fires + 1
    /\ tick' = [tick EXCEPT ![fires + 1] = [IdleTick EXCEPT !.pc = "claimcheck"]]
    /\ UNCHANGED <<chain, activePrice, isRunning, intervalId, exited, operations,
                   positionStates, redeploy>>
    /\ UNCHANGED <<fees, accumulated_fees, claimed_fees, claimlog>>
    /\ UNCHANGED <<decVars, trackVars>>

\* the callback after checkAndClaimFees() has returned: checkAndRebalance()
ClaimDone == [IdleTick EXCEPT !.pc = "observe"]

\* one line of the claim pass's log output: the position (or all of them),
\* what was done, the fees and the price the pass has observed and its
\* totalFeeUSD
ClaimLogged(t, p, outcome, price, total) ==
    [tick |-> t, positionKey |-> p.positionKey, outcome |-> outcome,
     feeX |-> p.feeX, feeY |-> p.feeY, price |-> price, total |-> total]

\* the for-loop of checkAndClaimFees run up to its next await: positions under
\* the per-position minimum are passed over; the first other one reaches
\* claimSwapFee (pos keeps it at its head)
RECURSIVE RunClaimLoop(_, _, _, _, _)
RunClaimLoop(t, pos, price, total, from) ==
    IF pos = <<>> THEN [next |-> ClaimDone, skipped |-> <<>>]
    ELSE IF ClaimSkips(FeeCents(Head(pos).feeX, Head(pos).feeY, price))
         THEN LET rest == RunClaimLoop(t, Tail(pos), price, total, from + 1)
              IN  [next |-> rest.next,
                   skipped |-> <<ClaimLogged(t, Head(pos), "skipped", price, total)>>
                               \o rest.skipped]
         ELSE [next |-> [IdleTick EXCEPT !.pc = "claim", !.pos = pos, !.price = price,
                                         !.idx = from, !.total = total],
               skipped |-> <<>>]

\* checkAndClaimFees: totalFeeX / totalFeeY over the observed positions
RECURSIVE TotalFee(_, _)
TotalFee(pos, column) ==
    IF pos = <<>> THEN 0 ELSE Head(pos)[column] + TotalFee(Tail(pos), column)

\* checkAndClaimFees up to the threshold test: getPositions, getActiveBin, the
\* aggregate of all positions' unclaimed fees; a throw ends the pass in the
\* catch, an aggregate under the threshold returns
ClaimCheck(t) ==
    /\ ~exited /\ tick[t].pc = "claimcheck"
    /\ \E ok \in BOOLEAN :
        LET pos   == [i \in 1..Len(KeySeq) |->
                        [positionKey |-> KeySeq[i], feeX |-> fees[KeySeq[i]].feeX,
                         feeY |-> fees[KeySeq[i]].feeY]]
            total == FeeCents(TotalFee(pos, "feeX"), TotalFee(pos, "feeY"), activePrice)
            all   == [positionKey |-> "all", feeX |-> TotalFee(pos, "feeX"),
                      feeY |-> TotalFee(pos, "feeY")]
            next  == IF ok /\ ~BelowClaimThreshold(total)
                     THEN [IdleTick EXCEPT !.pc = "claimfetch", !.pos = pos,
                                           !.price = activePrice, !.total = total]
                     ELSE ClaimDone
        IN  /\ tick' = [tick EXCEPT ![t] = next]
            /\ claimlog' = IF ok /\ BelowClaimThreshold(total)
                           THEN Append(claimlog, ClaimLogged(t, all, "below", activePrice, total))
                           ELSE claimlog
    /\ UNCHANGED <<chain, activePrice, isRunning, intervalId, exited, operations,
                   positionStates, redeploy, fires>>
    /\ UNCHANGED <<fees, accumulated_fees, claimed_fees, claimChecked>>
    /\ UNCHANGED <<decVars, trackVars>>

\* checkAndClaimFees: getPositionsByUserAndLbPair, then the for-loop
ClaimFetch(t) ==
    /\ ~exited /\ tick[t].pc = "claimfetch"
    /\ \E ok \in BOOLEAN :
        LET run == IF ok THEN RunClaimLoop(t, tick[t].pos, tick[t].price, tick[t].total, 1)
                   ELSE [next |-> ClaimDone, skipped |-> <<>>]
        IN  /\ tick' = [tick EXCEPT ![t] = run.next]
            /\ claimlog' = claimlog \o run.skipped
    /\ UNCHANGED <<chain, activePrice, isRunning, intervalId, exited, operations,
                   positionStates, redeploy, fires>>
    /\ UNCHANGED <<fees, accumulated_fees, claimed_fees, claimChecked>>
    /\ UNCHANGED <<decVars, trackVars>>

\* one position of the claim pass: claimSwapFee, send, recordClaimedFee and
\* accumulateFees with the fees observed at the start of the pass, 2 s pause.
\* "failed": a transaction throws; "unrecorded": the transactions are
\* confirmed and the INSERT of recordClaimedFee throws; both are caught and
\* logged, and the loop goes on
ClaimOutcomes == {"claimed", "unrecorded", "failed"}

Claim(t) ==
    /\ ~exited /\ tick[t].pc = "claim"
    /\ \E outcome \in ClaimOutcomes :
        LET p   == Head(tick[t].pos)
            k   == p.positionKey
            run == RunClaimLoop(t, Tail(tick[t].pos), tick[t].price, tick[t].total,
                                tick[t].idx + 1)
        IN  /\ fees' = IF outcome = "failed" THEN fees
                       ELSE [fees EXCEPT ![k] = [feeX |-> 0, feeY |-> 0]]
            /\ claimed_fees' = IF outcome = "claimed"
                               THEN recordClaimedFee(claimed_fees, k, p.feeX, p.feeY, tick[t].price)
                               ELSE claimed_fees
            /\ accumulated_fees' = IF outcome = "claimed" /\ CLAIM_FEE_AUTO_REINVEST
                                   THEN accumulateFees(accumulated_fees, k, p.feeX, p.feeY)
                                   ELSE accumulated_fees
            /\ claimlog' = (claimlog \o <<ClaimLogged(t, p, outcome, tick[t].price, tick[t].total)>>)
                           \o run.skipped
            /\ tick' = [tick EXCEPT ![t] = run.next]
    /\ UNCHANGED <<chain, activePrice, isRunning, intervalId, exited, operations,
                   positionStates, redeploy, fires, claimChecked>>
    /\ UNCHANGED <<decVars, trackVars>>

\* checkAndRebalance up to its first rebalance: getPositions, getActiveBin,
\* takeSnapshot, then the for-loop; any throw ends the tick in the catch
Observe(t) ==
    /\ ~exited /\ tick[t].pc = "observe"
    /\ \E ok \in BOOLEAN :
        LET pos  == [i \in 1..Len(KeySeq) |-> MakePosition(chain[KeySeq[i]])]
            next == IF ok THEN RunLoop(pos, activePrice, 1) ELSE IdleTick
        IN  /\ tick' = [tick EXCEPT ![t] = next]
            /\ intervalId' = Armed(t, next)
            /\ redeploy' = IF ok THEN Reobserved(pos) ELSE redeploy
    /\ UNCHANGED <<chain, activePrice, isRunning, exited, operations, positionStates, fires>>
    /\ UNCHANGED feeVars
    /\ UNCHANGED <<decVars, trackVars>>

\* executeRebalance step 1: find the position, removeLiquidity (100%), send,
\* wait 3 s, refetchStates.  A throw is caught, executeRebalance returns
\* false and the for-loop goes on: "failed" throws before the removal is
\* confirmed, "removed" throws after it (the refetch), "ok" reaches step 2,
\* reads the accumulated fees and calls addLiquidityByStrategy
Remove(t) ==
    /\ ~exited /\ tick[t].pc = "remove"
    /\ \E outcome \in {"ok", "removed", "failed"} :
        LET k    == KeySeq[tick[t].idx]
            next == IF outcome = "ok"
                    THEN [tick[t] EXCEPT !.pc = "add", !.acc = ReadAccumulated(accumulated_fees)]
                    ELSE AfterFailure(tick[t])
        IN  /\ chain' = IF outcome = "failed" THEN chain ELSE [chain EXCEPT ![k] = Withdrawn(@)]
            /\ tick' = [tick EXCEPT ![t] = next]
            /\ intervalId' = Armed(t, next)
    /\ UNCHANGED <<activePrice, isRunning, exited, operations, positionStates, redeploy, fires>>
    /\ UNCHANGED feeVars
    /\ UNCHANGED <<decVars, trackVars>>

\* executeRebalance step 2: addLiquidityByStrategy single-sided (the amount
\* of the action plus the accumulated fees of that token), send; on success
\* the reinvested fees are cleared, positionStates is updated and
\* executeRebalance returns true
Add(t) ==
    /\ ~exited /\ tick[t].pc = "add"
    /\ \E ok \in BOOLEAN :
        LET k      == KeySeq[tick[t].idx]
            action == tick[t].act.action
            amount == tick[t].act.amount + Folded(action, tick[t].acc)
            next   == IF ok THEN [tick[t] EXCEPT !.pc = "after"]
                      ELSE AfterFailure(tick[t])
        IN  /\ chain' = IF ok THEN [chain EXCEPT ![k] = BidAskShape(@, action, amount)]
                        ELSE chain
            /\ accumulated_fees' = IF ok THEN ClearReinvested(accumulated_fees, action, tick[t].acc)
                                   ELSE accumulated_fees
            /\ positionStates' = IF ok THEN [positionStates EXCEPT ![k] = action]
                                 ELSE positionStates
            /\ redeploy' = [redeploy EXCEPT ![k] = IF ok THEN "none" ELSE "pending"]
            /\ tick' = [tick EXCEPT ![t] = next]
            /\ intervalId' = Armed(t, next)
    /\ UNCHANGED <<activePrice, isRunning, exited, operations, fires>>
    /\ UNCHANGED <<fees, claimed_fees, claimChecked, claimlog>>
    /\ UNCHANGED <<decVars, trackVars>>

\* after a successful rebalance: getPositions again, recordOperation, 1 s
\* pause, next position; a throw of getPositions ends the tick in the catch
After(t) ==
    /\ ~exited /\ tick[t].pc = "after"
    /\ \E ok \in BOOLEAN :
        LET k     == KeySeq[tick[t].idx]
            after == PositionValueUSD(chain[k])
            next  == IF ok THEN RunLoop(tick[t].pos, tick[t].price, tick[t].idx + 1)
                     ELSE IdleTick
        IN  /\ operations' = IF ok
                             THEN operations (+) SetToBag({
                                    [timestamp |-> now, positionKey |-> k,
                                     action |-> tick[t].act.action,
                                     beforeValueUSD |-> tick[t].before, afterValueUSD |-> after,
                                     amountProcessed |-> tick[t].act.amount]})
                             ELSE operations
            /\ tick' = [tick EXCEPT ![t] = next]
            /\ intervalId' = Armed(t, next)
    /\ UNCHANGED <<chain, activePrice, isRunning, exited, positionStates, redeploy, fires>>
    /\ UNCHANGED feeVars
    /\ UNCHANGED <<decVars, trackVars>>

\* SIGINT / SIGTERM handler (installed together with the timer):
\* isRunning = false, clearInterval, process.exit(0)
Signal ==
    /\ ~exited /\ intervalId
    /\ isRunning' = FALSE
    /\ intervalId' = FALSE
    /\ exited' = TRUE
    /\ UNCHANGED <<chain, activePrice, tick, operations, positionStates, redeploy, fires>>
    /\ UNCHANGED feeVars
    /\ UNCHANGED <<decVars, trackVars>>

\* the decision engine under test is not part of this specification
-----------------------------------------------------------------------------
(* The strategy bot (dlmm-strategy-bot): configuration, ranges, capital *)

\* config.redeployThreshold (0.003), in thousandths
RedeployPermille == 3

\* config.trendBreakoutCount
trendBreakoutCount == 3

\* config.reboundThreshold (0.1), in percent
ReboundPercent == 10

\* config.maxConsecutiveFailures
maxConsecutiveFailures == 5

\* the smallest position a strategy creates: if (positionSize < 10) return null
MinPositionSize == 10

\* number of grid ranges of the model (config: minPrice 100, gridSize 5)
NumRanges == 5

\* RangeManager.initializeRanges: ranges[i] = [lower, lower + gridSize)
GridRanges == [i \in 1..NumRanges |-> [id |-> i, lower |-> 100 + 5 * (i - 1), upper |-> 100 + 5 * i]]

\* RangeManager.findCurrentRange: the index of the range with
\* price >= lower and price < upper, 0 for null
findCurrentRange(price) ==
    IF \E i \in 1..NumRanges : price >= GridRanges[i].lower /\ price < GridRanges[i].upper
    THEN CHOOSE i \in 1..NumRanges : price >= GridRanges[i].lower /\ price < GridRanges[i].upper
    ELSE 0

\* getNextRange, getPreviousRange: 0 for null
getNextRange(i) == IF i = NumRanges THEN 0 ELSE i + 1
getPreviousRange(i) == IF i <= 1 THEN 0 ELSE i - 1

\* getTotalDeployed: the sum of allocatedCapital over the active positions
getTotalDeployed(positions) ==
    LET RECURSIVE S(_)
        S(i) == IF i = 0 THEN 0
                ELSE (IF positions[i].deleted THEN 0 ELSE positions[i].allocatedCapital) + S(i - 1)
    IN  S(Len(positions))

\* hasAvailableCapital: getTotalDeployed() < allocatedCapital * 0.95
hasAvailableCapital(positions, capital) == 100 * getTotalDeployed(positions) < 95 * capital

\* Math.min(allocatedCapital / parts, allocatedCapital - getTotalDeployed());
\* the capitals of the model are multiples of parts
positionSize(positions, capital, parts) ==
    LET share == capital \div parts
        rest  == capital - getTotalDeployed(positions)
    IN  IF share < rest THEN share ELSE rest

\* (mutant) positions of 5 units and more are created
TooSmall_BelowFive(size) == size < 5

\* if (positionSize < 10) return null
TooSmall(size) == size < MinPositionSize

-----------------------------------------------------------------------------
(* BidAskStrategy (strategies/bidAskStrategy.ts) *)

\* longest list of entries the Map activePositions is followed to
MaxEntries == 4

\* number of execute calls a strategy is followed through
MaxExecutes == 3

\* the BidAskStrategy after its constructor.  activePositions is the entry
\* list of the Map: set() appends an entry, delete() empties it in place, and
\* the for-of loop of execute walks the list by index up to its current end
BidAskConstructed(capital) ==
    [allocatedCapital |-> capital, activePositions |-> <<>>, compoundCount |-> 0,
     pc |-> "idle", currentPrice |-> 0, cursor |-> 0,
     atStart |-> {}, checked |-> <<>>, rebalanced |-> <<>>, executes |-> 0]

\* deployPosition(range): the list of entries after it; create is the
\* outcome of dlmmService.createPosition and of building the ActivePosition
deployPosition(b, positions, range, create) ==
    LET size == positionSize(positions, b.allocatedCapital, 10)
    IN  IF TooSmall(size) \/ create # "ok" THEN positions
        ELSE Append(positions, [id |-> Len(positions) + 1, range |-> range,
                                side |-> "SOL_ONLY", allocatedCapital |-> size,
                                deleted |-> FALSE])

\* execute(currentPrice) up to the for-of loop: no current range, return
BidAskExecute(price) ==
    /\ bidask.pc = "idle"
    /\ bidask.executes < MaxExecutes
    /\ bidask' = [bidask EXCEPT
            !.pc = IF findCurrentRange(price) = 0 THEN "idle" ELSE "loop",
            !.currentPrice = price,
            !.cursor = 1,
            !.atStart = {p.id : p \in {bidask.activePositions[i] :
                                          i \in {j \in 1..Len(bidask.activePositions) :
                                                    ~bidask.activePositions[j].deleted}}},
            !.checked = <<>>,
            !.rebalanced = <<>>,
            !.executes = @ + 1]
    /\ UNCHANGED <<mainVars, worker, conversion, trend, insurance, bot>>

\* the entries the iterator of the for-of loop has still to visit
Ahead(b) == {i \in b.cursor..Len(b.activePositions) : ~b.activePositions[i].deleted}

\* one turn of the for-of loop: checkPosition(position, currentPrice).  Above
\* range.upper * (1 + redeployThreshold): withdrawPosition, delete the entry,
\* deployPosition in the same range (which appends an entry), compoundCount++;
\* a throw of withdrawPosition is caught and leaves the entry
BidAskCheck ==
    /\ bidask.pc = "loop"
    /\ Ahead(bidask) # {}
    /\ Len(bidask.activePositions) < MaxEntries
    /\ \E withdraw \in {"ok", "throws"} : \E create \in {"ok", "throws"} :
        LET i        == CHOOSE j \in Ahead(bidask) : \A k \in Ahead(bidask) : j <= k
            p        == bidask.activePositions[i]
            above    == 1000 * bidask.currentPrice
                            > GridRanges[p.range].upper * (1000 + RedeployPermille)
            removed  == [bidask.activePositions EXCEPT ![i].deleted = TRUE]
        IN  bidask' = IF above /\ withdraw = "ok"
                      THEN [bidask EXCEPT
                              !.activePositions = deployPosition(bidask, removed, p.range, create),
                              !.compoundCount = @ + 1,
                              !.checked = Append(@, p.id),
                              !.rebalanced = Append(@, p.id),
                              !.cursor = i + 1]
                      ELSE [bidask EXCEPT
                              !.checked = Append(@, p.id),
                              !.cursor = i + 1]
    /\ UNCHANGED <<mainVars, worker, conversion, trend, insurance, bot>>

\* the end of the for-of loop and the rest of execute: a new position in the
\* current range if none is there and capital is available
BidAskReturn ==
    /\ bidask.pc = "loop"
    /\ Ahead(bidask) = {}
    /\ \E create \in {"ok", "throws"} :
        LET range  == findCurrentRange(bidask.currentPrice)
            has    == \E i \in 1..Len(bidask.activePositions) :
                          /\ ~bidask.activePositions[i].deleted
                          /\ bidask.activePositions[i].range = range
            deploy == ~has /\ hasAvailableCapital(bidask.activePositions, bidask.allocatedCapital)
        IN  bidask' = [bidask EXCEPT
                !.activePositions = IF deploy THEN deployPosition(bidask, @, range, create) ELSE @,
                !.pc = "idle"]
    /\ UNCHANGED <<mainVars, worker, conversion, trend, insurance, bot>>

-----------------------------------------------------------------------------
(* TrendStrategy (strategies/trendStrategy.ts) *)

\* largest value consecutiveBreakouts is followed to
MaxBreakouts == 4

\* the number of price points detectTrend needs: priceHistory.length < 5, return
TrendWindow == 5

NoDeployment == [side |-> "none", direction |-> "none", trail |-> <<>>]

\* the TrendStrategy after its constructor.  Of priceHistory the model keeps
\* what execute reads: its length up to TrendWindow and the price pushed
\* last.  trail and deployment are a log: the directions of the latest
\* breakouts since the last deployment, and what the latest call deployed
TrendConstructed(capital) ==
    [allocatedCapital |-> capital, activePositions |-> <<>>,
     historyLength |-> 0, lastPrice |-> 0,
     consecutiveBreakouts |-> 0, lastBreakoutDirection |-> "none",
     trail |-> <<>>, deployment |-> NoDeployment]

\* detectTrend: the direction of the breakout the new price makes, "none"
\* when there is none.  previous is the price before the new one
Breakout(length, previous, price) ==
    LET currentRange  == findCurrentRange(price)
        previousRange == findCurrentRange(previous)
    IN  IF length < TrendWindow \/ currentRange = 0 \/ previousRange = 0 THEN "none"
        ELSE IF currentRange > previousRange THEN "up"
        ELSE IF currentRange < previousRange THEN "down"
        ELSE "none"

\* (mutant) a breakout raises the count whatever its direction
Counted_AnyDirection(count, last, direction) ==
    IF direction = "none" THEN count ELSE count + 1

\* detectTrend: consecutiveBreakouts after a breakout in the given direction
Counted(count, last, direction) ==
    IF direction = "none" THEN count
    ELSE IF last = direction THEN count + 1
    ELSE 1

\* checkPosition of the trend strategy: the trend has turned against the position
Reversed(p, direction) ==
    \/ p.side = "SOL_ONLY" /\ direction = "down"
    \/ p.side = "USDC_ONLY" /\ direction = "up"

\* the for-of loop over activePositions: a position whose exit condition holds
\* is withdrawn and deleted unless withdrawPosition throws (withdrawn[i] false)
AfterChecks(positions, Exit(_), withdrawn) ==
    LET keep == {i \in 1..Len(positions) : ~(Exit(positions[i]) /\ withdrawn[i])}
        RECURSIVE K(_)
        K(i) == IF i = 0 THEN <<>>
                ELSE IF i \in keep THEN Append(K(i - 1), positions[i]) ELSE K(i - 1)
    IN  K(Len(positions))

\* the last n elements of a sequence
LastOf(s, n) == IF Len(s) <= n THEN s ELSE SubSeq(s, Len(s) - n + 1, Len(s))

\* execute(currentPrice) of the trend strategy: push the price, detectTrend,
\* check the positions, and with trendBreakoutCount breakouts and capital
\* available deployTrendPosition, which resets the count when it succeeds
TrendExecute(price, withdrawn, create) ==
    LET length    == IF trend.historyLength < TrendWindow THEN trend.historyLength + 1
                     ELSE TrendWindow
        breakout  == Breakout(length, trend.lastPrice, price)
        count     == Counted(trend.consecutiveBreakouts, trend.lastBreakoutDirection, breakout)
        direction == IF breakout = "none" THEN trend.lastBreakoutDirection ELSE breakout
        trail     == IF breakout = "none" THEN trend.trail
                     ELSE LastOf(Append(trend.trail, breakout), trendBreakoutCount)
        checked   == AfterChecks(trend.activePositions,
                                 LAMBDA p : Reversed(p, direction), withdrawn)
        current   == findCurrentRange(price)
        side      == IF direction = "up" THEN "SOL_ONLY" ELSE "USDC_ONLY"
        target    == IF current = 0 THEN 0
                     ELSE IF direction = "up" THEN getNextRange(current)
                     ELSE getPreviousRange(current)
        size      == positionSize(checked, trend.allocatedCapital, 3)
        deploys   == /\ count >= trendBreakoutCount
                     /\ hasAvailableCapital(checked, trend.allocatedCapital)
                     /\ target # 0
                     /\ ~TooSmall(size)
                     /\ create = "ok"
    IN  /\ count <= MaxBreakouts
        /\ trend' = [trend EXCEPT
              !.historyLength = length,
              !.lastPrice = price,
              !.lastBreakoutDirection = direction,
              !.consecutiveBreakouts = IF deploys THEN 0 ELSE count,
              !.activePositions =
                  IF deploys
                  THEN Append(checked, [range |-> target, side |-> side,
                                        allocatedCapital |-> size, deleted |-> FALSE])
                  ELSE checked,
              !.trail = IF deploys THEN <<>> ELSE trail,
              !.deployment = IF deploys
                             THEN [side |-> side, direction |-> direction, trail |-> trail]
                             ELSE NoDeployment]
        /\ UNCHANGED <<mainVars, worker, conversion, bidask, insurance, bot>>

-----------------------------------------------------------------------------
(* InsuranceStrategy (strategies/insuranceStrategy.ts) *)

\* config.insuranceRanges: "80-100,60-80,40-60"
InsuranceRanges ==
    <<[id |-> 1, lower |-> 80, upper |-> 100], [id |-> 2, lower |-> 60, upper |-> 80],
      [id |-> 3, lower |-> 40, upper |-> 60]>>

\* the InsuranceStrategy after its constructor
InsuranceConstructed(capital) ==
    [allocatedCapital |-> capital, activePositions |-> <<>>, lastPrice |-> 0]

\* checkPosition of the insurance strategy: reboundPercent >= reboundThreshold,
\* with entryPrice = (range.lower + range.upper) / 2
Rebounded(p, price) ==
    LET twice == InsuranceRanges[p.range].lower + InsuranceRanges[p.range].upper
    IN  100 * (2 * price - twice) >= ReboundPercent * twice

\* the insurance ranges the price lies in
InRanges(price) ==
    {i \in 1..Len(InsuranceRanges) :
        price >= InsuranceRanges[i].lower /\ price < InsuranceRanges[i].upper}

\* execute(currentPrice) of the insurance strategy: check the positions, and
\* when the price has fallen into an insurance range without a position and
\* capital is available, deployInsurancePosition; lastPrice = currentPrice
InsuranceExecute(price, withdrawn, create) ==
    LET checked == AfterChecks(insurance.activePositions,
                               LAMBDA p : Rebounded(p, price), withdrawn)
        falling == insurance.lastPrice > 0 /\ price < insurance.lastPrice
        open    == {i \in InRanges(price) :
                       /\ \A j \in 1..Len(checked) : checked[j].range # i
                       /\ hasAvailableCapital(checked, insurance.allocatedCapital)}
        size    == positionSize(checked, insurance.allocatedCapital, Len(InsuranceRanges))
        deploys == falling /\ open # {} /\ ~TooSmall(size) /\ create = "ok"
    IN  /\ insurance' = [insurance EXCEPT
              !.lastPrice = price,
              !.activePositions =
                  IF deploys
                  THEN Append(checked, [range |-> CHOOSE i \in open : TRUE, side |-> "BALANCED",
                                        allocatedCapital |-> size, deleted |-> FALSE])
                  ELSE checked]
        /\ UNCHANGED <<mainVars, worker, conversion, bidask, trend, bot>>

-----------------------------------------------------------------------------
(* DLMMBot (core/bot.ts): the execution loop and its circuit breaker *)

\* what one iteration of the loop did
NoIteration == [tripped |-> FALSE, fetched |-> FALSE, executed |-> FALSE]

\* the DLMMBot after its constructor.  pc is where executionLoop stands:
\* "stopped" (no loop), "top" (at the while condition), "paused" (in the
\* sleep of a tripped breaker), "sleeping" (in sleep(config.checkInterval)).
\* iteration, sinceClean and sinceSuccess are a log: what the latest
\* iteration did, and the number of failed iterations since the latest
\* iteration that ran the strategies without raising, resp. since the latest
\* iteration with a successful result (both also restart at a reset)
BotConstructed ==
    [isRunning |-> FALSE, consecutiveFailures |-> 0, isTripped |-> FALSE, pc |-> "stopped",
     iteration |-> NoIteration, sinceClean |-> 0, sinceSuccess |-> 0]

\* (mutant) the breaker trips one failure late
Trips_Late(failures) == failures > maxConsecutiveFailures

\* handleFailure: consecutiveFailures >= config.maxConsecutiveFailures
Trips(failures) == failures >= maxConsecutiveFailures

\* (mutant) a successful result leaves the count as it is
AfterResults_Kept(failures, success) == failures

\* executionLoop: if (results.some((r) => r.success)) consecutiveFailures = 0
AfterResults(failures, success) == IF success THEN 0 ELSE failures

\* handleFailure
handleFailure(b) ==
    [b EXCEPT !.consecutiveFailures = @ + 1,
              !.isTripped = IF Trips(b.consecutiveFailures + 1) THEN TRUE ELSE @]

\* start(): isRunning = true and the loop is entered
BotStart ==
    /\ ~bot.isRunning
    /\ bot.pc = "stopped"
    /\ bot' = [bot EXCEPT !.isRunning = TRUE, !.pc = "top"]
    /\ UNCHANGED <<mainVars, worker, conversion, bidask, trend, insurance>>

\* stop()
BotStop ==
    /\ bot.isRunning
    /\ bot' = [bot EXCEPT !.isRunning = FALSE]
    /\ UNCHANGED <<mainVars, worker, conversion, bidask, trend, insurance>>

\* the ways an iteration with an untripped breaker can go: getPrice returns
\* 0; something in the try block raises; the strategies run and one of
\* their results is a success; the strategies run and none is
IterationOutcomes == {"noprice", "raises", "success", "nosuccess"}

Cap(n) == IF n < maxConsecutiveFailures THEN n ELSE maxConsecutiveFailures

\* one iteration of the while loop up to its sleep
BotIterate(outcome) ==
    /\ bot.pc = "top"
    /\ bot' =
        IF ~bot.isRunning THEN [bot EXCEPT !.pc = "stopped"]
        ELSE IF bot.isTripped
        THEN [bot EXCEPT !.pc = "paused",
                         !.iteration = [tripped |-> TRUE, fetched |-> FALSE, executed |-> FALSE]]
        ELSE IF outcome = "noprice"
        THEN [handleFailure(bot) EXCEPT
                         !.pc = "sleeping",
                         !.iteration = [tripped |-> FALSE, fetched |-> TRUE, executed |-> FALSE],
                         !.sinceClean = Cap(@ + 1), !.sinceSuccess = Cap(@ + 1)]
        ELSE IF outcome = "raises"
        THEN [handleFailure(bot) EXCEPT
                         !.pc = "sleeping",
                         !.iteration = [tripped |-> FALSE, fetched |-> TRUE, executed |-> TRUE],
                         !.sinceClean = Cap(@ + 1), !.sinceSuccess = Cap(@ + 1)]
        ELSE [bot EXCEPT !.consecutiveFailures = AfterResults(@, outcome = "success"),
                         !.pc = "sleeping",
                         !.iteration = [tripped |-> FALSE, fetched |-> TRUE, executed |-> TRUE],
                         !.sinceClean = 0,
                         !.sinceSuccess = IF outcome = "success" THEN 0 ELSE @]
    /\ UNCHANGED <<mainVars, worker, conversion, bidask, trend, insurance>>

\* the end of a sleep: after the pause of a tripped breaker
\* resetCircuitBreaker and continue, after sleep(checkInterval) the next turn
BotWake ==
    /\ bot.pc \in {"paused", "sleeping"}
    /\ bot' = IF bot.pc = "paused"
              THEN [bot EXCEPT !.consecutiveFailures = 0, !.isTripped = FALSE, !.pc = "top",
                               !.sinceClean = 0, !.sinceSuccess = 0]
              ELSE [bot EXCEPT !.pc = "top"]
    /\ UNCHANGED <<mainVars, worker, conversion, bidask, trend, insurance>>

-----------------------------------------------------------------------------
(* The Cloudflare Workers variant: the D1 value tracker and the entry points
   of the Worker that take a snapshot.  Time is Date.now() in minutes. *)

\* SNAPSHOT_INTERVAL_MS of the Workers tracker, in minutes
SNAPSHOT_INTERVAL_MS == 10

\* Date.now() when the Worker is deployed (any time later than ten minutes
\* after 1970 behaves alike)
WorkerEpoch == 30

\* minutes of Worker time explored
MaxWorkerMinutes == 10

\* largest number of invocations of the Worker
MaxInvocations == 3

\* new ValueTracker(env): the fields as the class initialises them
createValueTracker == [lastSnapshotTime |-> 0]

\* createRebalancer(env, config): the rebalancer of one invocation with its own tracker
createRebalancer == [valueTracker |-> createValueTracker]

\* the latest row of the table snapshots, 0 when there is none
LastDurable(rows) == IF rows = <<>> THEN 0 ELSE rows[Len(rows)]

\* the test of takeSnapshot: the time since this instance last wrote a row
SnapshotThrottled(tracker, rows, timestamp) == timestamp - tracker.lastSnapshotTime < SNAPSHOT_INTERVAL_MS

\* takeSnapshot of the Workers tracker at time timestamp; insert says whether
\* the INSERT into snapshots returns or throws.  Yields the tracker, the two
\* tables and what the call did.
takeSnapshotD1(tracker, db, timestamp, insert) ==
    IF SnapshotThrottled(tracker, db.snapshots, timestamp)
    THEN [tracker |-> tracker, db |-> db, inserted |-> FALSE, daily |-> FALSE, returned |-> timestamp]
    ELSE IF insert = "throws"
    THEN [tracker |-> tracker, db |-> db, inserted |-> FALSE, daily |-> FALSE, returned |-> timestamp]
    ELSE [tracker |-> [tracker EXCEPT !.lastSnapshotTime = timestamp],
          db |-> [snapshots |-> Append(db.snapshots, timestamp),
                  daily_pnl |-> Append(db.daily_pnl, timestamp)],
          inserted |-> TRUE, daily |-> TRUE, returned |-> timestamp]

\* checkAndRebalance of the Workers rebalancer, as far as the tracker goes:
\* reached says whether initialize and getPositions returned, so that
\* takeSnapshot is called
checkAndRebalanceD1(rebalancer, db, timestamp, reached, insert) ==
    IF reached
    THEN takeSnapshotD1(rebalancer.valueTracker, db, timestamp, insert)
    ELSE [tracker |-> rebalancer.valueTracker, db |-> db, inserted |-> FALSE, daily |-> FALSE, returned |-> 0]

\* the Worker as deployed: empty tables, no invocation yet
WorkerDeployed == [clock |-> WorkerEpoch, db |-> [snapshots |-> <<>>, daily_pnl |-> <<>>], invocations |-> <<>>]

WorkerParked == worker = WorkerDeployed

\* the Worker after one invocation through entry: a rebalancer is created and
\* checkAndRebalance runs
Invoked(entry, reached, insert) ==
    LET done == checkAndRebalanceD1(createRebalancer, worker.db, worker.clock, reached, insert)
    IN [worker EXCEPT
            !.db = done.db,
            !.invocations = Append(@, [entry |-> entry, at |-> worker.clock,
                                       lastDurable |-> LastDurable(worker.db.snapshots),
                                       inserted |-> done.inserted, daily |-> done.daily,
                                       returned |-> done.returned])]

\* the cron trigger
handleScheduled(reached, insert) ==
    /\ Len(worker.invocations) < MaxInvocations
    /\ worker' = Invoked("scheduled", reached, insert)
    /\ UNCHANGED <<mainVars, conversion, bidask, trend, insurance, bot>>

\* POST /api/rebalance
handleRequest(reached, insert) ==
    /\ Len(worker.invocations) < MaxInvocations
    /\ worker' = Invoked("/api/rebalance", reached, insert)
    /\ UNCHANGED <<mainVars, conversion, bidask, trend, insurance, bot>>

\* a minute passes
WorkerTick ==
    /\ worker.clock < WorkerEpoch + MaxWorkerMinutes
    /\ worker' = [worker EXCEPT !.clock = @ + 1]
    /\ UNCHANGED <<mainVars, conversion, bidask, trend, insurance, bot>>

\* no call of toNumber yet
NotConverted == [value |-> [type |-> "undefined"], result |-> [kind |-> "pending"]]

ConvParked == conversion = NotConverted

\* the strategy bot as constructed with the default capital (5000 * 0.7,
\* 5000 * 0.2, 5000 * 0.1 of config.ts would do as well; these are the
\* smallest capitals with which every strategy creates positions)
StrategiesParked ==
    /\ bidask = BidAskConstructed(100)
    /\ trend = TrendConstructed(30)
    /\ insurance = InsuranceConstructed(30)

BotParked == bot = BotConstructed

\* the other units before they are used
UnitsParked ==
    /\ ConvParked
    /\ StrategiesParked
    /\ BotParked
    /\ WorkerParked

\* the decision engine before it is used
DecIdle ==
    /\ position = MakePosition(<<>>)
    /\ currentPrice = 0
    /\ decision = Unset
    /\ decisionCF = Unset
    /\ mono = NotAnalyzed

DecParked ==
    /\ DecIdle
    /\ UnitsParked

Init ==
    /\ DecParked
    /\ LoopInit
    /\ TrackInit

Next ==
    \/ Start
    \/ TimerFire
    \/ \E t \in TickIds : Observe(t)
    \/ \E t \in TickIds : Remove(t)
    \/ \E t \in TickIds : Add(t)
    \/ \E t \in TickIds : After(t)
    \/ Signal

Spec == Init /\ [][Next]_vars

-----------------------------------------------------------------------------
(* Specification of the monitoring loop with the daily fee-claim pass *)

\* pools whose first position is due for redeployment: above the range with
\* the second position due or not, below the range with it redeployed
FeePools ==
    { pool \in PoolStates :
        /\ checkRebalanceNeeded(MakePosition(pool.chain[KeySeq[1]]), pool.price) # NoAction
        /\ \/ pool.price = 403
           \/ checkRebalanceNeeded(MakePosition(pool.chain[KeySeq[2]]), pool.price) = NoAction }

\* unclaimed swap fees of the two positions (base units, quote units)
FeeStates ==
    { [k \in Keys |-> IF k = KeySeq[1] THEN [feeX |-> f[1], feeY |-> f[2]]
                      ELSE [feeX |-> f[3], feeY |-> f[4]]] :
        f \in { <<0, 300, 0, 0>>, <<0, 490, 0, 10>>, <<0, 5, 0, 595>>, <<1, 0, 0, 9>> } }

\* the accumulated fees a previous run has left in the store
LedgerStates ==
    { EmptyMap, MapSet(EmptyMap, KeySeq[1], [fee_x |-> 2, fee_y |-> 400]) }

\* the rows of claimed_fees the previous run has written before it accumulated
\* the fees of the ledger (checkAndClaimFees records a claim, then accumulates
\* it; no statement deletes a row of claimed_fees)
PriorRecords(ledger) ==
    IF KeySeq[1] \in DOMAIN ledger
    THEN <<[recordClaimedFee(<<>>, KeySeq[1], ledger[KeySeq[1]].fee_x,
                             ledger[KeySeq[1]].fee_y, 200)[1] EXCEPT !.timestamp = 0]>>
    ELSE <<>>

FeeInit ==
    /\ DecParked
    /\ TrackInit
    /\ Constructed
    /\ \E pool \in FeePools :
        /\ chain = pool.chain
        /\ activePrice = pool.price
    /\ fees \in FeeStates
    /\ accumulated_fees \in LedgerStates
    /\ claimed_fees = PriorRecords(accumulated_fees)

FeeNext ==
    \/ Start
    \/ TimerFire
    \/ TimerFireClaim
    \/ \E t \in TickIds : ClaimCheck(t)
    \/ \E t \in TickIds : ClaimFetch(t)
    \/ \E t \in TickIds : Claim(t)
    \/ \E t \in TickIds : Observe(t)
    \/ \E t \in TickIds : Remove(t)
    \/ \E t \in TickIds : Add(t)
    \/ \E t \in TickIds : After(t)
    \/ Signal

FeeSpec == FeeInit /\ [][FeeNext]_vars

-----------------------------------------------------------------------------
(* Specification of the value tracker: any sequence of takeSnapshot calls *)

\* the loop before start(), on one fixed pool
ParkedPool == CHOOSE pool \in PoolStates : pool.price = 403

LoopParked ==
    /\ LoopInit
    /\ chain = ParkedPool.chain
    /\ activePrice = ParkedPool.price

TrackerInit ==
    /\ DecParked
    /\ LoopParked
    /\ TrackInit

TrackerNext ==
    \/ \E args \in Observations : \E dt \in Elapsed : \E fail \in Failures :
          takeSnapshot(args, dt, fail)

TrackerSpec == TrackerInit /\ [][TrackerNext]_vars

-----------------------------------------------------------------------------
(* Specification of the tracker's store over its lifetime: snapshots,
   recorded operations and restarts of the process; the writes of the
   store succeed here, their failures are the subject of TrackerSpec *)

StoreNext ==
    \/ \E args \in Observations : \E dt \in Elapsed : takeSnapshot(args, dt, "none")
    \/ \E dt \in OperationElapsed : recordOperation("A", "bid", 40, 40, 40, dt)
    \/ Restart

StoreSpec == TrackerInit /\ [][StoreNext]_vars

-----------------------------------------------------------------------------
(* Statistics read from the store: calculateAPY and calculateFeeAPY.
   Doubles are fractions in lowest terms; Math.pow is enclosed between two
   fractions (lo <= result <= hi), the other results are exact (lo = hi). *)

\* the integer n as a double
Number(n) == [num |-> n, den |-> 1]

\* a < b on doubles
Less(a, b) == a.num * b.den < b.num * a.den

\* a value passed on without the limits
Clamp_Unbounded(lo, hi, x) == x

\* Math.max(lo, Math.min(hi, x))
Clamp(lo, hi, x) ==
    LET m == IF Less(hi, x) THEN hi ELSE x
    IN  IF Less(m, lo) THEN lo ELSE m

\* SELECT * FROM daily_pnl ORDER BY date DESC LIMIT days, then reverse()
RecentDays(rows, days) ==
    LET byDate == SortSeq(rows, LAMBDA a, b : a.date < b.date)
    IN  IF Len(byDate) <= days THEN byDate
        ELSE SubSeq(byDate, Len(byDate) - days + 1, Len(byDate))

\* compounding whatever the number of days
UsesSimple_Never(actualDays) == FALSE

\* calculateAPY: if (actualDays < 3), the simple annualisation
UsesSimple(actualDays) == actualDays < 3

\* the power of Math.pow(1 + clampedReturn, 365 / actualDays) that the
\* enclosure computes exactly; the exponent is at least 365 / 30 > PowCap
PowCap == 3

RECURSIVE IntPow(_, _)
IntPow(b, m) == IF m = 0 THEN 1 ELSE b * IntPow(b, m - 1)

\* (Math.pow(base, exponent) - 1) * 100 limited to [-1000, 100000], for a
\* base >= 0 and an exponent >= PowCap: 0 for base 1; for a base above 1 at
\* least the value at the exponent PowCap and at most 100000; for a base
\* below 1 above -100 and at most the value at the exponent PowCap
Compounded(base, exponent) ==
    LET atCap == Frac((IntPow(base.num, PowCap) - IntPow(base.den, PowCap)) * 100,
                      IntPow(base.den, PowCap))
    IN  IF base.num = base.den THEN [lo |-> Zero, hi |-> Zero]
        ELSE IF base.num > base.den
             THEN [lo |-> Clamp(Number(0 - 1000), Number(100000), atCap), hi |-> Number(100000)]
             ELSE [lo |-> Number(0 - 100), hi |-> atCap]

\* calculateAPY(days) on the rows of daily_pnl
calculateAPY(rows, days) ==
    LET recentDays == RecentDays(rows, days)
        actualDays == Len(recentDays)
        zero       == [days |-> days, mode |-> "zero", lo |-> Zero, hi |-> Zero,
                       base |-> Null, exponent |-> Null]
    IN  IF actualDays < 2 THEN zero
        ELSE LET startValue == recentDays[1].open_value
                 endValue   == recentDays[actualDays].close_value
             IN  IF startValue <= 0 THEN zero
                 ELSE LET totalReturn == Frac(endValue - startValue, startValue)
                      IN  IF UsesSimple(actualDays)
                          THEN LET simpleAPY == Frac(totalReturn.num * 365 * 100,
                                                     totalReturn.den * actualDays)
                                   apy == Clamp(Number(0 - 1000), Number(10000), simpleAPY)
                               IN  [days |-> days, mode |-> "simple", lo |-> apy, hi |-> apy,
                                    base |-> Null, exponent |-> Null]
                          ELSE LET clampedReturn == Clamp(Frac(0 - 99, 100), Number(10), totalReturn)
                                   base == Frac(clampedReturn.num + clampedReturn.den,
                                                clampedReturn.den)
                                   exponent == Frac(365, actualDays)
                                   apy == Compounded(base, exponent)
                               IN  [days |-> days, mode |-> "compound",
                                    lo |-> apy.lo, hi |-> apy.hi,
                                    base |-> base, exponent |-> exponent]

\* getClaimedFeesInRange: COALESCE(SUM(total_claimed_usd), 0) of the rows
\* with startTime <= timestamp < endTime
RECURSIVE getClaimedFeesInRange(_, _, _)
getClaimedFeesInRange(rows, startTime, endTime) ==
    IF rows = <<>> THEN 0
    ELSE (IF Head(rows).timestamp >= startTime /\ Head(rows).timestamp < endTime
          THEN Head(rows).total_claimed_usd ELSE 0)
         + getClaimedFeesInRange(Tail(rows), startTime, endTime)

\* SELECT ... FROM snapshots ORDER BY timestamp DESC LIMIT 1
LatestSnapshot(rows) ==
    rows[CHOOSE i \in 1..Len(rows) : \A j \in 1..Len(rows) : rows[j].timestamp <= rows[i].timestamp]

\* getLatestPositions
getLatestPositions(rows) == IF rows = <<>> THEN <<>> ELSE LatestSnapshot(rows).positions

RECURSIVE UnclaimedFees(_)
UnclaimedFees(positions) ==
    IF positions = <<>> THEN 0 ELSE Head(positions).totalFeeUSD + UnclaimedFees(Tail(positions))

\* a fee APY returned without the limit
CapFeeAPY_None(apy) == apy

\* calculateFeeAPY: Math.min(apy, 9999)
CapFeeAPY(apy) == IF Less(Number(9999), apy) THEN Number(9999) ELSE apy

\* calculateFeeAPY(days, currentTotalValue)
calculateFeeAPY(days, currentTotalValue) ==
    IF currentTotalValue <= 0 THEN Zero
    ELSE LET startTime     == now - days * DayLength
             claimedFees   == getClaimedFeesInRange(claimed_fees, startTime, now)
             unclaimedFees == UnclaimedFees(getLatestPositions(snapshots))
             totalFees     == claimedFees + unclaimedFees
         IN  IF totalFees <= 0 THEN Zero
             ELSE CapFeeAPY(Frac(totalFees * 365 * 100, currentTotalValue * days))

\* getSummary: apy7d and apy30d
SummaryDays == {7, 30}

\* getSummary: this.calculateAPY(days)
GetAPY(days) ==
    /\ apyCall' = calculateAPY(daily_pnl, days)
    /\ UNCHANGED <<now, lastSnapshotTime, lastSnapshot, lastSolRatios, snapshots, daily_pnl,
                   position_price_history, call, calls, instance, feeApyCall>>
    /\ UNCHANGED <<decVars, loopVars>>

\* getSummary: currentTotalValue = latestSnapshot?.total_value_usd || 0, then
\* this.calculateFeeAPY(days, currentTotalValue) (getSummary passes 7)
GetFeeAPY(days) ==
    /\ \E currentTotalValue \in {IF snapshots = <<>> THEN 0
                                 ELSE LatestSnapshot(snapshots).total_value_usd} :
          feeApyCall' = [days |-> days, currentTotalValue |-> currentTotalValue,
                         result |-> calculateFeeAPY(days, currentTotalValue)]
    /\ UNCHANGED <<now, lastSnapshotTime, lastSnapshot, lastSolRatios, snapshots, daily_pnl,
                   position_price_history, call, calls, instance, apyCall>>
    /\ UNCHANGED <<decVars, loopVars>>

\* Date.now() when the statistics are read
StatsClock == 40 * DayLength + 5

\* the total values of the persisted snapshots the histories are made of
Totals == {0, 50, 100, 150, 200}

\* daily_pnl after the persisted snapshots `writes` ([date, total] each)
RECURSIVE Persisted(_, _)
Persisted(rows, writes) ==
    IF writes = <<>> THEN rows
    ELSE Persisted(updateDailyPnL(rows, Head(writes).total, Head(writes).date), Tail(writes))

\* a history of n days: two snapshots on the first day (totals first and
\* closes[1]), one on each later day (total closes[d])
History(first, closes) ==
    Persisted(<<>>, <<[date |-> 31, total |-> first]>>
                    \o [d \in 1..Len(closes) |-> [date |-> 30 + d, total |-> closes[d]]])

\* the histories of daily_pnl: empty, one to three days, and eight days
\* (more than the 7 that apy7d selects)
DailyHistories ==
    {<<>>}
    \cup {History(first, closes) : first \in Totals, closes \in UNION {[1..n -> Totals] : n \in 1..3}}
    \cup {History(first, <<middle, middle, middle, middle, middle, middle, middle, last>>) : first \in Totals, middle \in Totals, last \in Totals}

\* the row of snapshots a persisting takeSnapshot(args) writes at time t
SnapshotRow(args, t) ==
    LET done == ValuePositions(args.positions, args,
                               [ratios |-> EmptyMap, history |-> <<>>, values |-> <<>>], t)
    IN  [timestamp |-> t, total_value_usd |-> SumValueUSD(done.values),
         current_price |-> args.currentPrice, positions |-> done.values]

\* the table snapshots: empty, one row, or two rows
SnapshotTables ==
    {<<>>}
    \cup {<<SnapshotRow(args, StatsClock - 3)>> : args \in Observations}
    \cup {<<SnapshotRow(old, StatsClock - 20), SnapshotRow(new, StatsClock - 3)>> : old \in Observations, new \in {args \in Observations : args.currentPrice = 198}}

\* a row of claimed_fees of the given age (minutes) and amount
ClaimedFee(age, amount) ==
    [recordClaimedFee(<<>>, "A", 0, amount, 403)[1] EXCEPT !.timestamp = StatsClock - age]

\* the table claimed_fees: rows inside the 7 day window, at its start,
\* inside the 30 day window only, and older
ClaimedTables ==
    { <<>>,
      <<ClaimedFee(31 * DayLength, 500)>>,
      <<ClaimedFee(8 * DayLength, 30000)>>,
      <<ClaimedFee(7 * DayLength, 500)>>,
      <<ClaimedFee(8 * DayLength, 500), ClaimedFee(1, 30000)>>,
      <<ClaimedFee(1, 500)>> }

StatsInit ==
    /\ DecParked
    /\ Constructed
    /\ chain = ParkedPool.chain
    /\ activePrice = ParkedPool.price
    /\ fees = [k \in Keys |-> [feeX |-> 0, feeY |-> 0]]
    /\ accumulated_fees = EmptyMap
    /\ now = StatsClock
    /\ claimed_fees \in ClaimedTables
    /\ lastSnapshotTime = 0
    /\ lastSnapshot = NoSnapshot
    /\ lastSolRatios = EmptyMap
    /\ position_price_history = <<>>
    /\ call = NoCall
    /\ calls = <<>>
    /\ instance = 1
    /\ apyCall = NoApy
    /\ feeApyCall = NoFeeApy
    /\ daily_pnl \in DailyHistories
    /\ snapshots \in SnapshotTables

StatsNext ==
    \/ \E days \in SummaryDays : GetAPY(days)
    \/ \E days \in SummaryDays : GetFeeAPY(days)

StatsSpec == StatsInit /\ [][StatsNext]_vars

-----------------------------------------------------------------------------
(* Specification of the decision engine: any position, any price *)

DecInit ==
    /\ \E n \in 0..MaxBins : \E dist \in Distributions(n) : position = MakePosition(dist)
    /\ currentPrice \in PriceVals
    /\ decision = Unset
    /\ decisionCF = Unset
    /\ mono = NotAnalyzed
    /\ UnitsParked
    /\ LoopParked
    /\ TrackInit

\* the distribution analyzer applied to the position, both tokens, both directions
Analyze ==
    /\ ~mono.done
    /\ mono' = [ done  |-> TRUE,
                 ascX  |-> isAscendingDistribution(position.binDistribution, "x"),
                 descX |-> isDescendingDistribution(position.binDistribution, "x"),
                 ascY  |-> isAscendingDistribution(position.binDistribution, "y"),
                 descY |-> isDescendingDistribution(position.binDistribution, "y") ]
    /\ UNCHANGED <<position, currentPrice, decision, decisionCF, unitVars>>
    /\ UNCHANGED <<loopVars, trackVars>>

\* one call of the Node rebalancer's checkRebalanceNeeded
CheckNode ==
    /\ decision = Unset
    /\ decision' = checkRebalanceNeeded(position, currentPrice)
    /\ UNCHANGED <<position, currentPrice, decisionCF, mono, unitVars>>
    /\ UNCHANGED <<loopVars, trackVars>>

\* one call of the Workers rebalancer's checkRebalanceNeeded
CheckWorker ==
    /\ decisionCF = Unset
    /\ decisionCF' = checkRebalanceNeededCF(position)
    /\ UNCHANGED <<position, currentPrice, decision, mono, unitVars>>
    /\ UNCHANGED <<loopVars, trackVars>>

DecNext == Analyze \/ CheckNode \/ CheckWorker

DecisionSpec == DecInit /\ [][DecNext]_vars

-----------------------------------------------------------------------------
(* Specification of the decision engine inside the rebalancer's state: the
   same position and price evaluated again after positionStates and the
   tracker's lastSolRatios have changed *)

StatelessInit ==
    /\ \E dist \in Distributions(2) : position = MakePosition(dist)
    /\ currentPrice \in PriceVals
    /\ decision = Unset
    /\ decisionCF = Unset
    /\ mono = NotAnalyzed
    /\ UnitsParked
    /\ LoopParked
    /\ TrackInit

\* executeRebalance: this.positionStates.set(key, {...position, lastAction: actionType});
\* the next tick evaluates the position afresh
SetLastAction(k, actionType) ==
    /\ decision # Unset
    /\ positionStates[k] # actionType
    /\ positionStates' = [positionStates EXCEPT ![k] = actionType]
    /\ decision' = Unset
    /\ UNCHANGED <<position, currentPrice, decisionCF, mono, unitVars>>
    /\ UNCHANGED <<chain, activePrice, isRunning, intervalId, exited, tick, operations,
                   redeploy, fires>>
    /\ UNCHANGED <<feeVars, trackVars>>

\* checkAndRecordPriceChange: this.lastSolRatios.set(positionKey, solRatio);
\* the next tick evaluates the position afresh
SetSolRatio(k, solRatio) ==
    /\ decision # Unset
    /\ k \in DOMAIN lastSolRatios => lastSolRatios[k] # solRatio
    /\ lastSolRatios' = MapSet(lastSolRatios, k, solRatio)
    /\ decision' = Unset
    /\ UNCHANGED <<position, currentPrice, decisionCF, mono, unitVars>>
    /\ UNCHANGED <<now, lastSnapshotTime, lastSnapshot, snapshots, daily_pnl,
                   position_price_history, call, calls, apyCall, feeApyCall, instance>>
    /\ UNCHANGED loopVars

StatelessNext ==
    \/ CheckNode
    \/ \E k \in Keys : \E actionType \in {"bid", "ask"} : SetLastAction(k, actionType)
    \/ \E solRatio \in {Zero, [num |-> 1, den |-> 1]} : SetSolRatio("A", solRatio)

StatelessSpec == StatelessInit /\ [][StatelessNext]_vars

-----------------------------------------------------------------------------
(* toNumber (bidAskRebalancer.ts): the conversion at the position source *)

\* longest string handed to toNumber
MaxChars == 4

\* the characters of the strings
Chars == {"0", "1", "a", "x", "z"}

Strings(n) == UNION { [1..m -> Chars] : m \in 0..n }

HexDigits == {"0", "1", "a"}
DecimalDigits == {"0", "1"}

DigitValue(c) == IF c = "0" THEN 0 ELSE IF c = "1" THEN 1 ELSE 10

\* the number of leading characters of s that are in digits
PrefixLen(s, digits) ==
    LET RECURSIVE P(_)
        P(i) == IF i <= Len(s) /\ s[i] \in digits THEN P(i + 1) ELSE i - 1
    IN  P(1)

\* the value of the digit string s in the given radix
DigitsValue(s, radix) ==
    LET RECURSIVE V(_)
        V(i) == IF i = 0 THEN 0 ELSE radix * V(i - 1) + DigitValue(s[i])
    IN  V(Len(s))

NaN == [kind |-> "NaN"]
Throws == [kind |-> "throws"]
Num(n) == [kind |-> "number", value |-> n]

\* value.startsWith('0x')
StartsWith0x(s) == Len(s) >= 2 /\ s[1] = "0" /\ s[2] = "x"

\* parseInt(value, 16) of a string that starts with 0x: the prefix is
\* dropped, the longest run of hex digits is read, none gives NaN
parseInt16(s) ==
    LET rest == SubSeq(s, 3, Len(s))
        n    == PrefixLen(rest, HexDigits)
    IN  IF n = 0 THEN NaN ELSE Num(DigitsValue(SubSeq(rest, 1, n), 16))

\* parseFloat(value): the longest prefix that is a decimal literal is read,
\* none gives NaN
parseFloat(s) ==
    LET n == PrefixLen(s, DecimalDigits)
    IN  IF n = 0 THEN NaN ELSE Num(DigitsValue(SubSeq(s, 1, n), 10))

\* BN.toNumber(): one or two 26-bit words, or three with a top word of 1, are
\* converted; anything longer fails the assertion "Number can only safely
\* store up to 53 bits"
WordBase == 67108864

BNtoNumber(words) ==
    IF Len(words) = 1 THEN Num(words[1])
    ELSE IF Len(words) = 2 THEN Num(words[1] + words[2] * WordBase)
    ELSE Throws

\* !value
Falsy(v) ==
    \/ v.type \in {"null", "undefined"}
    \/ v.type = "number" /\ (v.nan \/ v.value = 0)
    \/ v.type = "string" /\ v.chars = <<>>
    \/ v.type = "bigint" /\ v.value = 0
    \/ v.type = "boolean" /\ ~v.flag

\* toNumber(value)
toNumber(v) ==
    IF Falsy(v) THEN Num(0)
    ELSE IF v.type = "BN" THEN BNtoNumber(v.words)
    ELSE IF v.type = "number" THEN Num(v.value)
    ELSE IF v.type = "string"
         THEN IF StartsWith0x(v.chars) THEN parseInt16(v.chars)
              ELSE IF parseFloat(v.chars) \in {NaN, Num(0)} THEN Num(0) ELSE parseFloat(v.chars)
    ELSE IF v.type = "bigint" THEN Num(v.value)
    ELSE Num(0)

\* the values a field of the position source may hold
JSValues ==
    {[type |-> "null"], [type |-> "undefined"], [type |-> "object"]}
        \cup {[type |-> "boolean", flag |-> b] : b \in BOOLEAN}
        \cup {[type |-> "number", value |-> n, nan |-> FALSE] : n \in {0, 7, -3}}
        \cup {[type |-> "number", value |-> 0, nan |-> TRUE]}
        \cup {[type |-> "bigint", value |-> n] : n \in {0, 7}}
        \cup {[type |-> "BN", words |-> w] : w \in {<<0>>, <<7>>, <<5, 1>>, <<0, 0, 2>>}}
        \cup {[type |-> "string", chars |-> s] : s \in Strings(MaxChars)}

ConvInit ==
    /\ DecIdle
    /\ WorkerParked
    /\ LoopParked
    /\ TrackInit
    /\ \E v \in JSValues : conversion = [value |-> v, result |-> [kind |-> "pending"]]
    /\ StrategiesParked
    /\ BotParked

\* one call of toNumber
Convert ==
    /\ conversion.result.kind = "pending"
    /\ conversion' = [conversion EXCEPT !.result = toNumber(conversion.value)]
    /\ UNCHANGED <<mainVars, worker, bidask, trend, insurance, bot>>

ConvNext == Convert

ConvSpec == ConvInit /\ [][ConvNext]_vars

-----------------------------------------------------------------------------
(* Specification of the three strategies of the strategy bot.  The strategy
   objects share no state, and a behaviour follows one of them *)

\* the capital a strategy is constructed with (config.totalCapital times its
\* allocation): one under which no position reaches the minimum, and others
BidAskCapitals == {90, 100, 200}
TrendCapitals == {27, 30}
InsuranceCapitals == {27, 30, 60}

\* the prices handed to execute
BidAskPrices == {95, 102, 106, 111}
TrendPrices == {102, 107, 112, 117, 122}
InsurancePrices == {50, 70, 90, 99, 120}

StrategyInit ==
    /\ DecIdle
    /\ WorkerParked
    /\ LoopParked
    /\ TrackInit
    /\ ConvParked
    /\ BotParked
    /\ \E capital \in BidAskCapitals : bidask = BidAskConstructed(capital)
    /\ \E capital \in TrendCapitals : trend = TrendConstructed(capital)
    /\ \E capital \in InsuranceCapitals : insurance = InsuranceConstructed(capital)

BidAskUntouched == bidask \in {BidAskConstructed(capital) : capital \in BidAskCapitals}
TrendUntouched == trend \in {TrendConstructed(capital) : capital \in TrendCapitals}
InsuranceUntouched == insurance \in {InsuranceConstructed(capital) : capital \in InsuranceCapitals}

BidAskNext ==
    /\ TrendUntouched /\ InsuranceUntouched
    /\ \/ \E price \in BidAskPrices : BidAskExecute(price)
       \/ BidAskCheck
       \/ BidAskReturn

TrendNext ==
    /\ BidAskUntouched /\ InsuranceUntouched
    /\ \E price \in TrendPrices : \E create \in {"ok", "throws"} :
          \E done \in BOOLEAN :
              TrendExecute(price, [i \in 1..Len(trend.activePositions) |-> done], create)

InsuranceNext ==
    /\ BidAskUntouched /\ TrendUntouched
    /\ \E price \in InsurancePrices : \E create \in {"ok", "throws"} :
          \E withdrawn \in [1..Len(insurance.activePositions) -> BOOLEAN] :
              InsuranceExecute(price, withdrawn, create)

StrategyNext == BidAskNext \/ TrendNext \/ InsuranceNext

StrategySpec == StrategyInit /\ [][StrategyNext]_vars

-----------------------------------------------------------------------------
(* Specification of the Cloudflare Worker *)

WorkerInit ==
    /\ DecIdle
    /\ LoopParked
    /\ TrackInit
    /\ ConvParked
    /\ StrategiesParked
    /\ BotParked
    /\ WorkerParked

WorkerNext ==
    \/ WorkerTick
    \/ \E reached \in BOOLEAN : \E insert \in {"ok", "throws"} : handleScheduled(reached, insert)
    \/ \E reached \in BOOLEAN : \E insert \in {"ok", "throws"} : handleRequest(reached, insert)

WorkerSpec == WorkerInit /\ [][WorkerNext]_vars

-----------------------------------------------------------------------------
(* Specifications of the execution loop of the strategy bot *)

BotInit ==
    /\ DecIdle
    /\ WorkerParked
    /\ LoopParked
    /\ TrackInit
    /\ ConvParked
    /\ StrategiesParked
    /\ bot = BotConstructed

BotNext ==
    \/ BotStart
    \/ BotStop
    \/ \E outcome \in IterationOutcomes : BotIterate(outcome)
    \/ BotWake

BotSpec == BotInit /\ [][BotNext]_vars

\* the loop goes on: a sleep ends and an iteration that can start does
BotLiveSpec ==
    /\ BotSpec
    /\ WF_vars(\E outcome \in IterationOutcomes : BotIterate(outcome))
    /\ WF_vars(BotWake)

-----------------------------------------------------------------------------
(* Claims about the decision engine (checked under DecisionSpec) *)

\* the summed amount of one token over the bins lo..hi of the observed position
RECURSIVE TotalOver(_, _, _)
TotalOver(token, lo, hi) ==
    IF lo > hi THEN 0
    ELSE (IF token = "x" THEN position.binDistribution[hi].xAmount
                         ELSE position.binDistribution[hi].yAmount)
         + TotalOver(token, lo, hi - 1)

NBins == Len(position.binDistribution)
BaseTotal == TotalOver("x", 1, NBins)
QuoteTotal == TotalOver("y", 1, NBins)

\* the price of the highest- and lowest-priced bucket (0 without buckets)
TopPrice == IF NBins = 0 THEN 0 ELSE position.binDistribution[NBins].price
BottomPrice == IF NBins = 0 THEN 0 ELSE position.binDistribution[1].price

\* the gate at 0.5%: price > top * 1.005, price < bottom * 0.995
AboveBand == 1000 * currentPrice > TopPrice * 1005
BelowBand == 1000 * currentPrice < BottomPrice * 995

\* C1: a position whose base total and quote total are both > 0, or both 0,
\* gets no action from either rebalancer, whatever its buckets and the price.
C1_BothOrNeitherIsNone ==
    ((BaseTotal > 0 /\ QuoteTotal > 0) \/ (BaseTotal = 0 /\ QuoteTotal = 0))
        => /\ decision \in {Unset, NoAction}
           /\ decisionCF \in {Unset, NoAction}

\* a two-sided position with an ascending quote side and a price above the
\* band has been evaluated by both rebalancers
C1_Witness ==
    /\ BaseTotal > 0 /\ QuoteTotal > 0
    /\ isAscendingDistribution(position.binDistribution, "y")
    /\ AboveBand
    /\ decision = NoAction /\ decisionCF = NoAction

\* C2: all-quote position (base total 0, quote total > 0): an ascending quote
\* distribution with the gate passed (Node) or without gate (Workers) gives
\* bid with amount = quote total; a non-ascending one gives no action.
C2_AllQuoteBid ==
    (BaseTotal = 0 /\ QuoteTotal > 0) =>
        /\ (decision # Unset /\ isAscendingDistribution(position.binDistribution, "y") /\ AboveBand)
              => decision = [action |-> "bid", amount |-> QuoteTotal]
        /\ (decision # Unset /\ ~isAscendingDistribution(position.binDistribution, "y"))
              => decision = NoAction
        /\ (decisionCF # Unset /\ isAscendingDistribution(position.binDistribution, "y"))
              => decisionCF = [action |-> "bid", amount |-> QuoteTotal]
        /\ (decisionCF # Unset /\ ~isAscendingDistribution(position.binDistribution, "y"))
              => decisionCF = NoAction

C2_Witness ==
    /\ BaseTotal = 0 /\ QuoteTotal > 0
    /\ decision = [action |-> "bid", amount |-> QuoteTotal]
    /\ decisionCF = decision

\* C3: all-base position (quote total 0, base total > 0): a descending base
\* distribution with the gate passed (Node) or without gate (Workers) gives
\* ask with amount = base total; a non-descending one gives no action.
C3_AllBaseAsk ==
    (QuoteTotal = 0 /\ BaseTotal > 0) =>
        /\ (decision # Unset /\ isDescendingDistribution(position.binDistribution, "x") /\ BelowBand)
              => decision = [action |-> "ask", amount |-> BaseTotal]
        /\ (decision # Unset /\ ~isDescendingDistribution(position.binDistribution, "x"))
              => decision = NoAction
        /\ (decisionCF # Unset /\ isDescendingDistribution(position.binDistribution, "x"))
              => decisionCF = [action |-> "ask", amount |-> BaseTotal]
        /\ (decisionCF # Unset /\ ~isDescendingDistribution(position.binDistribution, "x"))
              => decisionCF = NoAction

C3_Witness ==
    /\ QuoteTotal = 0 /\ BaseTotal > 0
    /\ decision = [action |-> "ask", amount |-> BaseTotal]
    /\ decisionCF = decision

\* C4: with the gate, the Node rebalancer never decides bid while
\* price <= top bucket price * 1.005 and never decides ask while
\* price >= bottom bucket price * 0.995.
C4_GateBlocksInsideBand ==
    /\ decision.action = "bid" => AboveBand
    /\ decision.action = "ask" => BelowBand

\* an all-quote ascending position exactly on the upper threshold was
\* evaluated and not redeployed, although the gate-less rebalancer would bid
C4_Witness ==
    /\ BaseTotal = 0 /\ QuoteTotal > 0
    /\ 1000 * currentPrice = TopPrice * 1005
    /\ decision = NoAction
    /\ decisionCF.action = "bid"

\* the claim's example: quote amounts [200, 300, 500] by ascending price
ExampleDist ==
    << [price |-> 1, xAmount |-> 0, yAmount |-> 200],
       [price |-> 2, xAmount |-> 0, yAmount |-> 300],
       [price |-> 3, xAmount |-> 0, yAmount |-> 500] >>

\* C5: with fewer than 2 buckets neither direction holds; with n >= 2
\* buckets split at floor(n/2), ascending iff mean(second half) >
\* 1.10 * mean(first half), descending iff mean(first half) >
\* 1.10 * mean(second half); [200, 300, 500] is ascending, not descending.
C5_MonotonicByHalfMeans ==
    /\ isAscendingDistribution(ExampleDist, "y")
    /\ ~isDescendingDistribution(ExampleDist, "y")
    /\ mono.done =>
        LET k == NBins \div 2
            F(t) == TotalOver(t, 1, k)
            S(t) == TotalOver(t, k + 1, NBins)
            \* mean(second) > 1.1 * mean(first):  S/(n-k) > 11/10 * F/k
            Asc(t)  == NBins >= 2 /\ 10 * S(t) * k > 11 * F(t) * (NBins - k)
            Desc(t) == NBins >= 2 /\ 10 * F(t) * (NBins - k) > 11 * S(t) * k
        IN  /\ mono.ascX = Asc("x") /\ mono.descX = Desc("x")
            /\ mono.ascY = Asc("y") /\ mono.descY = Desc("y")

\* three buckets with first-half mean 200 and second-half mean (220+220)/2:
\* exactly on the 10% margin, hence not ascending; and its mirror image
C5_Witness ==
    /\ mono.done
    /\ NBins = 3
    /\ position.binDistribution[1].yAmount = 200
    /\ position.binDistribution[2].yAmount = 220
    /\ position.binDistribution[3].yAmount = 220
    /\ ~mono.ascY
    /\ position.binDistribution[1].xAmount = 500
    /\ mono.descX

-----------------------------------------------------------------------------
(* Claims about the monitoring loop (checked under Spec) *)

RebalancePhases == {"remove", "add"}

\* C6: when phase 1 (remove 100%) succeeded and phase 2 (re-add) failed, the
\* position observed by the next tick again has exactly one side at 0 and
\* the other > 0, so that a fresh decision redeploys it.
C6_RetriedAtNextTick == \A k \in Keys : redeploy[k] # "stuck"

\* C7: while a tick is inside a rebalance (remove, settle-wait, add, the
\* bookkeeping after it) no other invocation of the tick body is in flight.
C7_OneTickAtATime ==
    \A t \in TickIds :
        tick[t].pc \in {"remove", "add", "after"}
            => \A u \in TickIds \ {t} : tick[u].pc = "idle"

\* C8: a stop signal never ends the process while a tick is inside phase 1
\* or phase 2 of a rebalance.
C8_SignalNeverInterrupts ==
    exited => \A t \in TickIds : tick[t].pc \notin RebalancePhases

-----------------------------------------------------------------------------
(* Claims about the value tracker (checked under TrackerSpec) *)

\* lastPersistedTimestamp at the i-th call of the log, recomputed from the
\* log: the time of the latest earlier call that wrote a row, 0 if none
PersistedBefore(i) ==
    LET earlier == {j \in 1..(i - 1) : calls[j].wrote}
    IN  IF earlier = {} THEN 0 ELSE calls[MaxOf(earlier)].time

\* any two durable snapshot rows are at least one interval apart
RowsOneIntervalApart ==
    \A i, j \in 1..Len(snapshots) :
        i < j => snapshots[j].timestamp - snapshots[i].timestamp >= SNAPSHOT_INTERVAL

\* a row is written only by a call with now - lastPersistedTimestamp >= interval
WrittenOnlyWhenDue ==
    \A i \in 1..Len(calls) :
        calls[i].wrote => calls[i].time - PersistedBefore(i) >= SNAPSHOT_INTERVAL

\* the pairs of calls made within one snapshot interval
WithinOneInterval ==
    {p \in (1..Len(calls)) \X (1..Len(calls)) :
        p[1] < p[2] /\ calls[p[2]].time - calls[p[1]].time < SNAPSHOT_INTERVAL}

\* C9 (as amended): a durable snapshot row is written only when
\* now - lastPersistedTimestamp >= SNAPSHOT_INTERVAL, two calls made within
\* one snapshot interval write at most one row between them, and any two
\* durable rows are at least one interval apart.
C9_SnapshotThrottle ==
    /\ WrittenOnlyWhenDue
    /\ RowsOneIntervalApart
    /\ \A p \in WithinOneInterval : ~(calls[p[1]].wrote /\ calls[p[2]].wrote)

\* two calls within one interval of which the first wrote a row and the
\* second was throttled, and a later call that wrote the next row
C9_Witness ==
    /\ Len(snapshots) >= 2
    /\ \E p \in WithinOneInterval : calls[p[1]].wrote /\ ~calls[p[2]].wrote

\* C9 (as stated): as above, but two calls made within one snapshot
\* interval produce exactly one durable snapshot row.
C9_ExactlyOneRowPerInterval ==
    /\ WrittenOnlyWhenDue
    /\ RowsOneIntervalApart
    /\ \A p \in WithinOneInterval : calls[p[1]].wrote # calls[p[2]].wrote

\* the valuation of the positions of args, computed from args alone
OwnValuation(args) ==
    [i \in 1..Len(args.positions) |->
        calculatePositionValue(args.positions[i].binDistribution,
                               args.tokenXDecimals, args.tokenYDecimals)]

RECURSIVE SumTotals(_)
SumTotals(vals) == IF vals = <<>> THEN 0 ELSE Head(vals).totalValueUSD + SumTotals(Tail(vals))

\* C10: a takeSnapshot call that returns, throttled or not, returns a
\* snapshot whose currentPrice, totalValueUSD and per-position values are
\* those computed from the arguments of that very call.
C10_ReturnsOwnValuation ==
    call.kind = "returned" =>
        LET own == OwnValuation(call.args)
            ret == call.snapshot
        IN  /\ ret.currentPrice = call.args.currentPrice
            /\ ret.totalValueUSD = SumTotals(own)
            /\ Len(ret.positions) = Len(own)
            /\ \A i \in 1..Len(own) :
                /\ ret.positions[i].publicKey = call.args.positions[i].publicKey
                /\ ret.positions[i].valueUSD = own[i].totalValueUSD
                /\ ret.positions[i].xValueUSD = own[i].xValueUSD
                /\ ret.positions[i].yValueUSD = own[i].yValueUSD

\* a throttled call has returned whose valuation differs from that of the
\* call before it (the one cached in memory)
C10_Witness ==
    /\ call.kind = "returned" /\ call.throttled
    /\ Len(calls) >= 2
    /\ calls[Len(calls) - 1].totalValueUSD # call.snapshot.totalValueUSD
    /\ call.snapshot.totalValueUSD > 0

\* C11: the first daily_pnl row of a new date opens at the close of the
\* most recent earlier row, whatever that close is (0 included): for all
\* consecutive rows open(day N+1) = close(day N).
C11_OpenIsPreviousClose ==
    \A i \in 2..Len(daily_pnl) :
        daily_pnl[i].open_value = daily_pnl[i - 1].close_value

\* pnl and pnl_percent of a daily_pnl row agree with its open and close
RowPnLConsistent(row) ==
    /\ row.pnl = row.close_value - row.open_value
    /\ row.pnl_percent = IF row.open_value > 0
                         THEN Frac(row.pnl * 100, row.open_value)
                         ELSE Zero

\* C12: after every creation or update of a daily_pnl row, pnl = close_value
\* - open_value and pnl_percent = pnl / open_value * 100 (0 when open_value
\* <= 0) hold for it, and no step changes the open_value of an existing row.
C12_PnLFromUnchangedOpen ==
    /\ [](\A i \in 1..Len(daily_pnl) : RowPnLConsistent(daily_pnl[i]))
    /\ [][\A i \in 1..Len(daily_pnl) :
            /\ i <= Len(daily_pnl')
            /\ daily_pnl'[i].date = daily_pnl[i].date
            /\ daily_pnl'[i].open_value = daily_pnl[i].open_value]_vars

\* a row created on one day and updated later that day to another value,
\* and a row of a later day
C12_Witness ==
    \E i \in 1..Len(daily_pnl) :
        /\ daily_pnl[i].high_value # daily_pnl[i].low_value
        /\ daily_pnl[i].pnl # 0
        /\ daily_pnl[i].open_value > 0

-----------------------------------------------------------------------------
(* Claims about the bookkeeping of rebalances and write failures *)

\* C13: every rebalance whose two phases both succeeded (the tick is at the
\* bookkeeping after executeRebalance returned true) results, when the tick
\* moves on, in exactly one Operation record for that position and action,
\* with the valuation before and after; a failed rebalance appends none.
C13_OneOperationPerRebalance ==
    [][\A t \in TickIds :
          IF tick[t].pc = "after" /\ tick'[t] # tick[t]
          THEN \E r \in BagToSet(operations') :
                  /\ r.positionKey = KeySeq[tick[t].idx]
                  /\ r.action = tick[t].act.action
                  /\ r.beforeValueUSD = tick[t].before
                  /\ r.afterValueUSD = PositionValueUSD(chain[r.positionKey])
                  /\ operations' = operations (+) SetToBag({r})
          ELSE tick[t].pc \in RebalancePhases /\ tick'[t] # tick[t]
                  => operations' = operations]_vars

\* C20: a takeSnapshot call whose durable write (snapshot row or daily
\* aggregate) fails still returns the snapshot it computed.
C20_WriteFailureStillReturns == call.kind # "none" => call.kind = "returned"

-----------------------------------------------------------------------------
(* Claims about the fee-claim pass and the reinvestment (checked under FeeSpec) *)

ClaimPass == {"claimfetch", "claim"}

\* the value of the fees a log line of the claim pass speaks of
LoggedCents(e) == FeeCents(e.feeX, e.feeY, e.price)

\* the log lines about positions the pass has sent claim transactions for
Attempted == {i \in 1..Len(claimlog) : claimlog[i].outcome \in ClaimOutcomes}

\* the records of claimed fees this run has written, and those of a position
RunRecords == {j \in 1..Len(claimed_fees) : claimed_fees[j].timestamp >= StartClock}
RecordsOf(k) == {j \in RunRecords : claimed_fees[j].position_key = k}

C16_SuccessfulClaimRecorded ==
    \A i \in 1..Len(claimlog) :
        claimlog[i].outcome \in {"claimed", "unrecorded"}
            => Cardinality(RecordsOf(claimlog[i].positionKey)) = 1

\* the step of tick t is the successful end of a rebalance that reinvests
\* accumulated fees
Reinvests(t) ==
    /\ tick[t].pc = "add"
    /\ tick'[t].pc = "after"
    /\ Folded(tick[t].act.action, tick[t].acc) > 0

\* C17: a successful rebalance that reinvests accumulated fees clears the
\* reused token only: after a bid every row has fee_y = 0 and its fee_x as
\* before, after an ask the other way round, and the rows left with both
\* fields 0 (and no others) are gone.
C17_ClearScopedToReusedToken ==
    [][\A t \in TickIds :
          Reinvests(t)
              => LET bid     == tick[t].act.action = "bid"
                     cleared == IF bid THEN "fee_y" ELSE "fee_x"
                     kept    == IF bid THEN "fee_x" ELSE "fee_y"
                 IN  /\ DOMAIN accumulated_fees' \subseteq DOMAIN accumulated_fees
                     /\ \A k \in DOMAIN accumulated_fees' :
                           /\ accumulated_fees'[k][cleared] = 0
                           /\ accumulated_fees'[k][kept] = accumulated_fees[k][kept]
                           /\ accumulated_fees'[k][kept] # 0
                     /\ \A k \in DOMAIN accumulated_fees \ DOMAIN accumulated_fees' :
                           accumulated_fees[k][kept] = 0]_vars

\* a bid has reinvested the quote fees; a row with base fees is left
C17_Witness ==
    \E t \in TickIds :
        /\ tick[t].pc = "after"
        /\ tick[t].act.action = "bid"
        /\ tick[t].acc.y > 0
        /\ DOMAIN accumulated_fees # {}
        /\ \A k \in DOMAIN accumulated_fees :
              accumulated_fees[k].fee_y = 0 /\ accumulated_fees[k].fee_x > 0

\* C18: the amount of a token a successful rebalance removes from the
\* accumulated fees is the amount of that token it has folded into its
\* add-liquidity call, and a rebalance that fails leaves the ledger as it is.
C18_ClearedEqualsFolded ==
    [][\A t \in TickIds :
          (tick[t].pc = "add" /\ tick'[t] # tick[t])
              => IF tick'[t].pc = "after"
                 THEN LET column == IF tick[t].act.action = "bid" THEN "fee_y" ELSE "fee_x"
                      IN  TotalAccFee(accumulated_fees, column)
                              - TotalAccFee(accumulated_fees', column)
                          = Folded(tick[t].act.action, tick[t].acc)
                 ELSE accumulated_fees' = accumulated_fees]_vars

\* none of the observed positions needs an action
NoneDue(pos, price) == \A i \in 1..Len(pos) : checkRebalanceNeeded(pos[i], price) = NoAction

\* the for-loop of checkAndRebalance, at index `from` over the positions pos,
\* has evaluated them in turn and arrived at the tick record n
EvaluatedOn(pos, price, from, n) ==
    \/ n.pc = "idle" /\ NoneDue(pos, price)
    \/ /\ n.pc = "remove"
       /\ n.idx > from
       /\ n.idx - from <= Len(pos)
       /\ NoneDue(SubSeq(pos, 1, n.idx - from - 1), price)
       /\ n.act = checkRebalanceNeeded(pos[n.idx - from], price)
       /\ n.act # NoAction

\* the for-loop of checkAndClaimFees has gone on from the position at the
\* head of pos to the tick record n
ClaimedOn(pos, price, from, n) ==
    \/ /\ n.pc = "observe"
       /\ \A i \in 2..Len(pos) : ClaimSkips(FeeCents(pos[i].feeX, pos[i].feeY, price))
    \/ /\ n.pc = "claim"
       /\ n.idx > from
       /\ n.idx - from < Len(pos)
       /\ \A i \in 2..(n.idx - from) : ClaimSkips(FeeCents(pos[i].feeX, pos[i].feeY, price))
       /\ Head(n.pos) = pos[n.idx - from + 1]
       /\ ~ClaimSkips(FeeCents(Head(n.pos).feeX, Head(n.pos).feeY, price))

\* C19: when a phase of a rebalance or a claim fails for one position, the
\* tick goes on to evaluate every remaining position (the failed one is not
\* taken up again in the tick), and every later tick evaluates all positions
\* from the first one.
C19_FailureCaughtPerPosition ==
    [][\A t \in TickIds :
          /\ (tick[t].pc = "remove" /\ tick'[t] # tick[t] /\ tick'[t].pc # "add")
                => EvaluatedOn(tick[t].pos, tick[t].price, tick[t].idx, tick'[t])
          /\ (tick[t].pc = "add" /\ tick'[t] # tick[t] /\ tick'[t].pc # "after")
                => EvaluatedOn(tick[t].pos, tick[t].price, tick[t].idx, tick'[t])
          /\ (tick[t].pc = "claim" /\ tick'[t] # tick[t] /\ claimed_fees' = claimed_fees)
                => ClaimedOn(tick[t].pos, tick[t].price, tick[t].idx, tick'[t])
          /\ (tick[t].pc = "observe" /\ tick'[t].pc = "remove")
                => EvaluatedOn([i \in 1..Len(KeySeq) |-> MakePosition(chain[KeySeq[i]])],
                               activePrice, 0, tick'[t])]_vars

\* in one callback the claim of the first position has failed and the second
\* one was claimed, then phase 2 of the first position's rebalance has failed
\* and the second position is being rebalanced
C19_Witness ==
    \E t \in TickIds :
        /\ \E i \in Attempted : \E j \in Attempted :
              /\ i < j
              /\ claimlog[i].tick = t /\ claimlog[j].tick = t
              /\ claimlog[i].positionKey = KeySeq[1] /\ claimlog[i].outcome = "failed"
              /\ claimlog[j].positionKey = KeySeq[2] /\ claimlog[j].outcome = "claimed"
        /\ redeploy[KeySeq[1]] = "pending"
        /\ tick[t].pc \in RebalancePhases
        /\ tick[t].idx = 2

-----------------------------------------------------------------------------
(* Regime transitions recorded in position_price_history *)

\* the ratio xValueUSD / valueUSD of the i-th position of args, 0 for a
\* position without value, computed from args alone
OwnRatio(args, i) ==
    LET own == OwnValuation(args)[i]
    IN  IF own.totalValueUSD > 0 THEN Frac(own.xValueUSD, own.totalValueUSD) ELSE Zero

\* the rows with index above n of the price history h that belong to position k
RowsAfter(h, n, k) == {i \in (n + 1)..Len(h) : h[i].position_key = k}

\* C21: a takeSnapshot call appends at most one price history row per
\* observed position: with a stored ratio for the position, an ask row of
\* amount xValueUSD iff the stored ratio is below 0.95 and the current one at
\* least 0.95, a bid row of amount yValueUSD iff the stored ratio is above 0.05
\* and the current one at most 0.05; without a stored ratio, an ask (bid) row
\* iff the current ratio is at least 0.95 (at most 0.05); and the ratio
\* stored for the position afterwards is the current one.
C21_OneRecordPerTransition ==
    [][calls' # calls =>
        \A i \in 1..Len(call'.args.positions) :
            LET k       == call'.args.positions[i].publicKey
                own     == OwnValuation(call'.args)[i]
                current == OwnRatio(call'.args, i)
                known   == k \in DOMAIN lastSolRatios
                askDue  == AtLeast95(current) /\ (known => ~AtLeast95(lastSolRatios[k]))
                bidDue  == AtMost05(current) /\ (known => ~AtMost05(lastSolRatios[k]))
                h       == position_price_history'
                new     == RowsAfter(h, Len(position_price_history), k)
            IN  /\ Cardinality(new) <= 1
                /\ askDue <=> \E r \in new : h[r].price_type = "ask" /\ h[r].amount = own.xValueUSD
                /\ bidDue <=> \E r \in new : h[r].price_type = "bid" /\ h[r].amount = own.yValueUSD
                /\ k \in DOMAIN lastSolRatios' /\ lastSolRatios'[k] = current]_vars

\* a call of the same instance has recorded the passage of a position from
\* below 0.95 to at least 0.95, and a later one its stay there without a row
C21_Witness ==
    \E j \in 2..Len(calls) : \E m \in (j + 1)..Len(calls) : \E k \in DOMAIN calls[j].ratios :
        /\ k \in DOMAIN calls[j - 1].ratios /\ k \in DOMAIN calls[m].ratios
        /\ ~AtLeast95(calls[j - 1].ratios[k])
        /\ AtLeast95(calls[j].ratios[k]) /\ calls[j].recorded = {<<k, "ask">>}
        /\ AtLeast95(calls[m].ratios[k]) /\ calls[m].recorded = {}

\* a ratio in the bid regime (at most 0.05) or the ask regime (at least 0.95)
InRegime(type, ratio) == IF type = "ask" THEN AtLeast95(ratio) ELSE AtMost05(ratio)

\* C22: over the lifetime of the table, through all tracker instances, a bid
\* (ask) row is appended for a position only by its very first observation
\* or by an observation whose predecessor for that position was outside the
\* bid (ask) regime: observations that stay in a regime append no further row.
C22_OneRowPerRegimeEntry ==
    \A j \in 1..Len(calls) : \A e \in calls[j].recorded :
        LET earlier == {i \in 1..(j - 1) : e[1] \in DOMAIN calls[i].ratios}
        IN  \/ earlier = {}
            \/ ~InRegime(e[2], calls[MaxOf(earlier)].ratios[e[1]])

\* the positions of args that enter the ask or the bid regime, given the
\* ratios stored before the call
Entering(args, stored) ==
    {i \in 1..Len(args.positions) :
        LET k == args.positions[i].publicKey
            current == OwnRatio(args, i)
        IN  \/ AtLeast95(current) /\ (k \in DOMAIN stored => ~AtLeast95(stored[k]))
            \/ AtMost05(current) /\ (k \in DOMAIN stored => ~AtMost05(stored[k]))}

\* C23: the regime tracking is not throttled: every takeSnapshot call, the
\* calls whose snapshot write is skipped included, stores the current ratio
\* of each observed position and appends one price history row for each
\* position entering a regime.
C23_SideEffectsNotThrottled ==
    [][calls' # calls =>
        /\ \A i \in 1..Len(call'.args.positions) :
              /\ call'.args.positions[i].publicKey \in DOMAIN lastSolRatios'
              /\ lastSolRatios'[call'.args.positions[i].publicKey] = OwnRatio(call'.args, i)
        /\ Len(position_price_history') - Len(position_price_history)
              = Cardinality(Entering(call'.args, lastSolRatios))
        /\ \A i \in Entering(call'.args, lastSolRatios) :
              RowsAfter(position_price_history', Len(position_price_history),
                        call'.args.positions[i].publicKey) # {}]_vars

\* a call that wrote no snapshot row because it was throttled has appended a
\* price history row and changed the stored ratio of the position
C23_Witness ==
    /\ call.kind = "returned" /\ call.throttled
    /\ Len(calls) >= 2
    /\ ~calls[Len(calls)].wrote
    /\ calls[Len(calls)].recorded # {}
    /\ \E k \in DOMAIN calls[Len(calls)].ratios :
          /\ k \in DOMAIN calls[Len(calls) - 1].ratios
          /\ calls[Len(calls)].ratios[k] # calls[Len(calls) - 1].ratios[k]
          /\ lastSolRatios[k] = calls[Len(calls)].ratios[k]

-----------------------------------------------------------------------------
(* The throttle across restarts *)

\* the timestamp of the most recent row of snapshots
LastRowTime == snapshots[Len(snapshots)].timestamp

\* C24: a new tracker instance starts with lastSnapshotTime equal to the
\* timestamp of the most recent row of snapshots, 0 when the table is empty;
\* a takeSnapshot call made less than one snapshot interval after the most
\* recent row, by the instance that wrote it or by a later one, writes no
\* row; a call on an empty table writes one.
C24_ThrottleSurvivesRestart ==
    [][/\ instance' # instance =>
            lastSnapshotTime' = IF snapshots = <<>> THEN 0 ELSE LastRowTime
       /\ (calls' # calls /\ snapshots # <<>> /\ now' - LastRowTime < SNAPSHOT_INTERVAL) =>
            snapshots' = snapshots
       /\ (calls' # calls /\ snapshots = <<>>) =>
            /\ Len(snapshots') = 1
            /\ snapshots'[1].timestamp = now']_vars

\* the first call has written a row on the empty store, the process was
\* restarted, and the first call of the new instance, made less than one
\* interval after the latest row, has written none
C24_Witness ==
    /\ Len(calls) >= 2
    /\ calls[1].wrote
    /\ calls[Len(calls)].instance = 2 /\ calls[Len(calls) - 1].instance = 1
    /\ ~calls[Len(calls)].wrote
    /\ snapshots # <<>>
    /\ calls[Len(calls)].time - LastRowTime < SNAPSHOT_INTERVAL

-----------------------------------------------------------------------------
(* The operations column of daily_pnl *)

\* the number of rows of operations whose timestamp lies in the given day
RecordedOn(day) ==
    BagCardinality([r \in {o \in DOMAIN operations : o.timestamp \div DayLength = day}
                      |-> operations[r]])

-----------------------------------------------------------------------------
(* High, low and close of a day *)

\* the calls of the log that have persisted a snapshot on the given date
\* (row inserted and daily_pnl updated)
PersistedOn(date) == {j \in 1..Len(calls) : calls[j].upserted /\ calls[j].time \div DayLength = date}

\* C26: each daily_pnl row has low_value <= close_value <= high_value, its
\* high_value and low_value are the largest and the smallest total value
\* persisted on its date, and its close_value is the last one.
C26_HighLowClose ==
    \A i \in 1..Len(daily_pnl) :
        LET row    == daily_pnl[i]
            on     == PersistedOn(row.date)
            totals == {calls[j].totalValueUSD : j \in on}
        IN  /\ on # {}
            /\ row.low_value <= row.close_value /\ row.close_value <= row.high_value
            /\ row.high_value = MaxOf(totals)
            /\ row.low_value = MinOf(totals)
            /\ row.close_value = calls[MaxOf(on)].totalValueUSD

\* two snapshots with different totals were persisted on one date, one of
\* them above the open of the day
C26_Witness ==
    \E i \in 1..Len(daily_pnl) :
        /\ Cardinality(PersistedOn(daily_pnl[i].date)) >= 2
        /\ daily_pnl[i].low_value < daily_pnl[i].high_value
        /\ daily_pnl[i].high_value > daily_pnl[i].open_value

-----------------------------------------------------------------------------
(* The valuation inside a returned snapshot *)

\* the sum of xAmount * price over the bins of a position, in units of
\* 10^-tokenXDecimals
RECURSIVE BaseUnitsValue(_)
BaseUnitsValue(bins) ==
    IF bins = <<>> THEN 0 ELSE Head(bins).xAmount * Head(bins).price + BaseUnitsValue(Tail(bins))

\* the sum of yAmount over the bins of a position, in units of 10^-tokenYDecimals
RECURSIVE QuoteUnits(_)
QuoteUnits(bins) == IF bins = <<>> THEN 0 ELSE Head(bins).yAmount + QuoteUnits(Tail(bins))

RECURSIVE SumOfValueUSD(_)
SumOfValueUSD(positions) ==
    IF positions = <<>> THEN 0 ELSE Head(positions).valueUSD + SumOfValueUSD(Tail(positions))

\* C27: in every snapshot takeSnapshot returns, totalValueUSD is the sum of
\* the positions' valueUSD, and each position's valueUSD is xValueUSD +
\* yValueUSD with xValueUSD the sum over its bins of xAmount / 10^tokenXDecimals
\* times the bin price and yValueUSD the sum of yAmount / 10^tokenYDecimals.
C27_SnapshotValuation ==
    call.kind = "returned" =>
        /\ call.snapshot.totalValueUSD = SumOfValueUSD(call.snapshot.positions)
        /\ Len(call.snapshot.positions) = Len(call.args.positions)
        /\ \A i \in 1..Len(call.snapshot.positions) :
              LET p    == call.snapshot.positions[i]
                  bins == call.args.positions[i].binDistribution
              IN  /\ p.valueUSD = p.xValueUSD + p.yValueUSD
                  /\ p.xValueUSD * Pow10(call.args.tokenXDecimals) = BaseUnitsValue(bins)
                  /\ p.yValueUSD * Pow10(call.args.tokenYDecimals) = QuoteUnits(bins)

\* a returned snapshot of two positions on a mint with one decimal, the first
\* holding base and quote token
C27_Witness ==
    /\ call.kind = "returned"
    /\ call.args.tokenXDecimals = 1
    /\ Len(call.snapshot.positions) = 2
    /\ call.snapshot.positions[1].xValueUSD > 0
    /\ call.snapshot.positions[1].yValueUSD > 0
    /\ call.snapshot.positions[2].valueUSD > 0
    /\ call.snapshot.totalValueUSD > call.snapshot.positions[1].valueUSD

-----------------------------------------------------------------------------
(* calculateAPY and calculateFeeAPY *)

\* the rows of daily_pnl among the `days` latest dates
UsedRows(days) ==
    {i \in 1..Len(daily_pnl) :
        Cardinality({j \in 1..Len(daily_pnl) : daily_pnl[j].date > daily_pnl[i].date}) < days}

\* the oldest and the newest of the rows calculateAPY(days) reads
OldestUsed(days) ==
    daily_pnl[CHOOSE i \in UsedRows(days) :
                 \A j \in UsedRows(days) : daily_pnl[i].date <= daily_pnl[j].date]

NewestUsed(days) ==
    daily_pnl[CHOOSE i \in UsedRows(days) :
                 \A j \in UsedRows(days) : daily_pnl[i].date >= daily_pnl[j].date]

\* the double x equals num / den limited to [lo, hi] (den > 0, lo and hi integers)
IsLimited(x, num, den, lo, hi) ==
    IF num > hi * den THEN x = [num |-> hi, den |-> 1]
    ELSE IF num < lo * den THEN x = [num |-> lo, den |-> 1]
    ELSE x.den > 0 /\ x.num * den = num * x.den

\* C28: calculateAPY(days) returns 0 when fewer than 2 rows of daily_pnl are
\* among the `days` latest, and when the oldest of them has open_value <= 0;
\* otherwise, with R = (close of the newest - open of the oldest) / open of the
\* oldest and n the number of rows, it returns R / n * 365 * 100 (limited to
\* [-1000, 10000]) when n < 3 and (pow(1 + R limited to [-0.99, 10], 365 / n)
\* - 1) * 100 when n >= 3.
C28_ApyBranches ==
    apyCall.mode # "none" =>
        LET n == Cardinality(UsedRows(apyCall.days))
        IN  IF n < 2 THEN apyCall.mode = "zero" /\ apyCall.lo = Zero /\ apyCall.hi = Zero
            ELSE LET startValue == OldestUsed(apyCall.days).open_value
                     endValue   == NewestUsed(apyCall.days).close_value
                 IN  IF startValue <= 0
                     THEN apyCall.mode = "zero" /\ apyCall.lo = Zero /\ apyCall.hi = Zero
                     ELSE IF n < 3
                     THEN /\ apyCall.mode = "simple"
                          /\ apyCall.lo = apyCall.hi
                          /\ IsLimited(apyCall.lo, (endValue - startValue) * 365 * 100,
                                       startValue * n, 0 - 1000, 10000)
                     ELSE /\ apyCall.mode = "compound"
                          /\ apyCall.exponent.num * n = 365 * apyCall.exponent.den
                          /\ IF endValue - startValue > 10 * startValue
                             THEN apyCall.base = [num |-> 11, den |-> 1]
                             ELSE IF 100 * (endValue - startValue) < (0 - 99) * startValue
                             THEN apyCall.base = [num |-> 1, den |-> 100]
                             ELSE apyCall.base.num * startValue = endValue * apyCall.base.den

\* apy7d was computed on a table of eight days: the seven latest rows are
\* compounded, with a gain
C28_Witness ==
    /\ apyCall.days = 7 /\ Len(daily_pnl) = 8
    /\ apyCall.mode = "compound"
    /\ apyCall.base.num > apyCall.base.den
    /\ apyCall.exponent = [num |-> 365, den |-> 7]

\* the close_value of the rows calculateAPY(days) reads increases with the date
IncreasingCloses(days) ==
    \A i, j \in UsedRows(days) :
        daily_pnl[i].date < daily_pnl[j].date
            => daily_pnl[i].close_value < daily_pnl[j].close_value

\* C29 as stated: calculateAPY(7) on 3 or more rows with increasing
\* close_value returns a positive value.
C29_PositiveOnIncreasingCloses ==
    (/\ apyCall.mode # "none" /\ apyCall.days = 7
     /\ Cardinality(UsedRows(7)) >= 3
     /\ IncreasingCloses(7))
        => Less(Zero, apyCall.lo)

\* C29: every result of calculateAPY lies in [-1000, 100000], in
\* [-1000, 10000] when fewer than 3 rows are read; calculateAPY(7) on 3 or
\* more rows with increasing close_value returns a positive value when the
\* oldest row's open_value is positive and below the newest row's close_value.
C29_ApyBoundedPositiveOnGain ==
    apyCall.mode # "none" =>
        /\ ~Less(apyCall.hi, apyCall.lo)
        /\ ~Less(apyCall.lo, [num |-> 0 - 1000, den |-> 1])
        /\ ~Less([num |-> 100000, den |-> 1], apyCall.hi)
        /\ Cardinality(UsedRows(apyCall.days)) < 3
              => ~Less([num |-> 10000, den |-> 1], apyCall.hi)
        /\ (/\ apyCall.days = 7
            /\ Cardinality(UsedRows(7)) >= 3
            /\ IncreasingCloses(7)
            /\ OldestUsed(7).open_value > 0
            /\ NewestUsed(7).close_value > OldestUsed(7).open_value)
              => Less(Zero, apyCall.lo)

\* apy7d on three days with close_value 50, 100, 200 after an open of 50 is
\* positive
C29_Witness ==
    /\ apyCall.mode = "compound" /\ apyCall.days = 7
    /\ Len(daily_pnl) = 3
    /\ IncreasingCloses(7)
    /\ daily_pnl[1].open_value = 50 /\ daily_pnl[3].close_value = 200
    /\ Less(Zero, apyCall.lo)

\* the sum of total_claimed_usd over the rows of claimed_fees with index in S
RECURSIVE ClaimedIn(_)
ClaimedIn(S) ==
    IF S = {} THEN 0
    ELSE LET i == CHOOSE j \in S : TRUE
         IN  claimed_fees[i].total_claimed_usd + ClaimedIn(S \ {i})

\* the sum of totalFeeUSD over the positions of the latest row of snapshots
RECURSIVE FeesOf(_)
FeesOf(positions) ==
    IF positions = <<>> THEN 0 ELSE Head(positions).totalFeeUSD + FeesOf(Tail(positions))

\* claimed fees of the last `days` days plus the unclaimed fees of the latest snapshot
WindowFees(days) ==
    ClaimedIn({i \in 1..Len(claimed_fees) :
                  /\ claimed_fees[i].timestamp >= now - days * DayLength
                  /\ claimed_fees[i].timestamp < now})
    + (IF snapshots = <<>> THEN 0 ELSE FeesOf(snapshots[Len(snapshots)].positions))

\* C30: calculateFeeAPY(days, currentTotalValue) is 0 when currentTotalValue
\* <= 0 or when the fees claimed in the window plus the unclaimed fees are
\* <= 0, otherwise (fees / currentTotalValue) * (365 / days) * 100, at most
\* 9999; the result lies in [0, 9999].
C30_FeeApyCapped ==
    feeApyCall.result # Null =>
        LET days  == feeApyCall.days
            value == feeApyCall.currentTotalValue
            total == WindowFees(days)
            apy   == feeApyCall.result
        IN  /\ ~Less(apy, Zero) /\ ~Less([num |-> 9999, den |-> 1], apy)
            /\ IF value <= 0 \/ total <= 0 THEN apy = Zero
               ELSE IF \/ (total * 365 * 100) \div (value * days) > 9999
                       \/ /\ (total * 365 * 100) \div (value * days) = 9999
                          /\ (total * 365 * 100) % (value * days) # 0
               THEN apy = [num |-> 9999, den |-> 1]
               ELSE LET g == GCD(total * 365 * 100, value * days)
                    IN  /\ apy.num = (total * 365 * 100) \div g
                        /\ apy.den = (value * days) \div g

\* feeAPY over 7 days with a claim inside the window and one outside it has
\* reached the cap
C30_Witness ==
    /\ feeApyCall.days = 7
    /\ feeApyCall.currentTotalValue > 0
    /\ feeApyCall.result = [num |-> 9999, den |-> 1]
    /\ \E i \in 1..Len(claimed_fees) : claimed_fees[i].timestamp < now - 7 * DayLength
    /\ \E i \in 1..Len(claimed_fees) : claimed_fees[i].timestamp >= now - 7 * DayLength

-----------------------------------------------------------------------------
(* The two directions of the distribution analyzer exclude each other *)

\* every bin of the observed position holds 0 of the token
AllZero(token) ==
    \A i \in 1..Len(position.binDistribution) :
        (IF token = "x" THEN position.binDistribution[i].xAmount
                        ELSE position.binDistribution[i].yAmount) = 0

\* C37: for every bin sequence with non-negative amounts and either token,
\* isAscendingDistribution and isDescendingDistribution are never both true,
\* and both are false when every amount of the token is 0.
C37_DirectionsExclusive ==
    mono.done =>
        /\ ~(mono.ascX /\ mono.descX)
        /\ ~(mono.ascY /\ mono.descY)
        /\ AllZero("x") => (~mono.ascX /\ ~mono.descX)
        /\ AllZero("y") => (~mono.ascY /\ ~mono.descY)

\* a position of three bins was analysed whose x amounts ascend and whose
\* y amounts are all 0
C37_Witness ==
    /\ mono.done
    /\ Len(position.binDistribution) = 3
    /\ mono.ascX /\ ~mono.descX
    /\ AllZero("y") /\ ~mono.ascY /\ ~mono.descY

-----------------------------------------------------------------------------
(* The decision depends on the observed position and the price only *)

\* the decision as a function of the buckets of the observed position and of
\* the current price: bid with the quote total for an all-quote position
\* above the band whose quote amounts ascend, ask with the base total for an
\* all-base position below the band whose base amounts descend, else none
DecisionOfInputs ==
    LET k == NBins \div 2
        F(t) == TotalOver(t, 1, k)
        S(t) == TotalOver(t, k + 1, NBins)
        Asc(t)  == NBins >= 2 /\ 10 * S(t) * k > 11 * F(t) * (NBins - k)
        Desc(t) == NBins >= 2 /\ 10 * F(t) * (NBins - k) > 11 * S(t) * k
    IN  IF BaseTotal = 0 /\ QuoteTotal > 0 /\ AboveBand /\ Asc("y")
        THEN [action |-> "bid", amount |-> QuoteTotal]
        ELSE IF QuoteTotal = 0 /\ BaseTotal > 0 /\ BelowBand /\ Desc("x")
        THEN [action |-> "ask", amount |-> BaseTotal]
        ELSE NoAction

\* C38: checkRebalanceNeeded is a function of the observed position and the
\* current price only: whatever lastAction positionStates holds and whatever
\* ratios the tracker has stored, every evaluation returns the decision that
\* the buckets, the totals and the price determine.
C38_DecisionStateless ==
    decision # Unset => decision = DecisionOfInputs

\* an all-quote position is given a bid although a bid is stored as the
\* lastAction of both positions and the tracker has stored a ratio
C38_Witness ==
    /\ decision.action = "bid"
    /\ \A k \in Keys : positionStates[k] = "bid"
    /\ "A" \in DOMAIN lastSolRatios

-----------------------------------------------------------------------------
(* The accumulated fees against the claimed fees *)

\* the sum of a column over the rows of claimed_fees
TotalClaimed(column) ==
    LET RECURSIVE S(_)
        S(i) == IF i = 0 THEN 0 ELSE claimed_fees[i][column] + S(i - 1)
    IN  S(Len(claimed_fees))

\* C39: with reinvestment enabled every amount of accumulated_fees is >= 0
\* and, for each token, the total over all rows of accumulated_fees is at
\* most the total of that token over the rows of claimed_fees.
C39_AccumulatedWithinClaimed ==
    CLAIM_FEE_AUTO_REINVEST =>
        /\ \A k \in DOMAIN accumulated_fees :
              accumulated_fees[k].fee_x >= 0 /\ accumulated_fees[k].fee_y >= 0
        /\ TotalAccFee(accumulated_fees, "fee_x") <= TotalClaimed("claimed_x")
        /\ TotalAccFee(accumulated_fees, "fee_y") <= TotalClaimed("claimed_y")

\* this run has claimed fees and accumulated them, and a bid has reinvested
\* the quote fees: base fees are still held, all of them claimed before
C39_Witness ==
    /\ CLAIM_FEE_AUTO_REINVEST
    /\ RunRecords # {}
    /\ \E t \in TickIds : tick[t].pc = "after" /\ tick[t].act.action = "bid" /\ tick[t].acc.y > 0
    /\ TotalAccFee(accumulated_fees, "fee_y") = 0
    /\ TotalClaimed("claimed_y") > 0
    /\ TotalAccFee(accumulated_fees, "fee_x") > 0
    /\ TotalAccFee(accumulated_fees, "fee_x") = TotalClaimed("claimed_x")

-----------------------------------------------------------------------------
(* The conversion at the position source *)

\* the argument of toNumber is missing or not a well-formed number: null,
\* undefined, NaN, an unsupported shape, a string without a leading digit, or
\* a string that starts with 0x and goes on with something that is not hex
Malformed(v) ==
    \/ v.type \in {"null", "undefined", "object", "boolean"}
    \/ v.type = "number" /\ v.nan
    \/ /\ v.type = "string"
       /\ IF StartsWith0x(v.chars)
          THEN \/ Len(v.chars) = 2
               \/ \E i \in 3..Len(v.chars) : v.chars[i] \notin HexDigits
          ELSE v.chars = <<>> \/ v.chars[1] \notin DecimalDigits

\* C31: toNumber never raises and yields 0 for every argument that is missing
\* or not a well-formed number.
C31_NeverRaisesZeroOnMalformed ==
    conversion.result.kind # "pending" =>
        /\ conversion.result # Throws
        /\ Malformed(conversion.value) => conversion.result = Num(0)

-----------------------------------------------------------------------------
(* The strategy bot: the strategies *)

\* C32: in a call of BidAskStrategy.execute only the positions that were
\* active when the call started are checked, each of them once; a position
\* the call has redeployed is not checked in that call.
C32_StartingPositionsCheckedOnce ==
    /\ \A i \in 1..Len(bidask.checked) : bidask.checked[i] \in bidask.atStart
    /\ \A i \in 1..Len(bidask.checked) : \A j \in 1..Len(bidask.checked) :
          i # j => bidask.checked[i] # bidask.checked[j]
    /\ Len(bidask.rebalanced) <= Cardinality(bidask.atStart)

\* the number of trailing entries of s that equal its last entry
TrailingRun(s) ==
    LET RECURSIVE R(_)
        R(i) == IF i = 0 \/ s[i] # s[Len(s)] THEN 0 ELSE 1 + R(i - 1)
    IN  R(Len(s))

\* C35: the trend strategy deploys only when the latest trendBreakoutCount
\* breakouts since the last deployment all went in one direction; the side is
\* SOL_ONLY for up and USDC_ONLY for down; the deployment sets the count to
\* 0; and the count is the length of the latest run of breakouts in one
\* direction, so that a breakout in the opposite direction makes it 1.
C35_DeploysAfterBreakoutsInOneDirection ==
    /\ trend.deployment # NoDeployment =>
          /\ Len(trend.deployment.trail) >= trendBreakoutCount
          /\ trend.deployment.direction \in {"up", "down"}
          /\ \A i \in 1..Len(trend.deployment.trail) :
                trend.deployment.trail[i] = trend.deployment.direction
          /\ trend.deployment.side
                = (IF trend.deployment.direction = "up" THEN "SOL_ONLY" ELSE "USDC_ONLY")
          /\ trend.activePositions[Len(trend.activePositions)].side = trend.deployment.side
          /\ trend.consecutiveBreakouts = 0
    /\ IF trend.consecutiveBreakouts < trendBreakoutCount
       THEN trend.consecutiveBreakouts = TrailingRun(trend.trail)
       ELSE TrailingRun(trend.trail) = trendBreakoutCount

\* after three breakouts down a USDC_ONLY position is deployed while a
\* SOL_ONLY position of an earlier up-trend is still held
C35_Witness ==
    /\ trend.deployment.direction = "down"
    /\ trend.deployment.side = "USDC_ONLY"
    /\ trend.deployment.trail = <<"down", "down", "down">>
    /\ Len(trend.activePositions) = 2
    /\ trend.activePositions[1].side = "SOL_ONLY"

\* the capital held by the positions of a strategy that are active
Held(strategy) ==
    LET RECURSIVE S(_)
        S(i) == IF i = 0 THEN 0
                ELSE (IF strategy.activePositions[i].deleted THEN 0
                      ELSE strategy.activePositions[i].allocatedCapital) + S(i - 1)
    IN  S(Len(strategy.activePositions))

\* C40: in each of the three strategies the capital held by the active
\* positions is at most the strategy's allocated capital, and every position
\* it has created holds at least 10 units.
C40_CapitalWithinAllocation ==
    \A strategy \in {bidask, trend, insurance} :
        /\ Held(strategy) <= strategy.allocatedCapital
        /\ \A i \in 1..Len(strategy.activePositions) :
              strategy.activePositions[i].allocatedCapital >= 10

\* the trend strategy holds three positions, which take all of its capital
C40_Witness ==
    /\ Len(trend.activePositions) = 3
    /\ Held(trend) = trend.allocatedCapital

-----------------------------------------------------------------------------
(* The strategy bot: the circuit breaker *)

\* C33: the breaker is tripped exactly while consecutiveFailures has reached
\* maxConsecutiveFailures, and it trips in the step in which the count
\* reaches it; an iteration that starts with the breaker tripped fetches no
\* price and executes no strategy; the end of the pause resets the breaker;
\* and a tripped breaker is always reset later unless the bot is stopped.
C33_BreakerTripsPausesResets ==
    /\ [](bot.isTripped <=> bot.consecutiveFailures >= maxConsecutiveFailures)
    /\ [](bot.iteration.tripped => ~bot.iteration.fetched /\ ~bot.iteration.executed)
    /\ [][(~bot.isTripped /\ bot'.isTripped)
            => /\ bot.consecutiveFailures = maxConsecutiveFailures - 1
               /\ bot'.consecutiveFailures = maxConsecutiveFailures]_vars
    /\ [][(bot.pc = "top" /\ bot.isRunning /\ bot.isTripped /\ bot'.pc # "top")
            => (bot'.pc = "paused" /\ bot'.iteration.tripped)]_vars
    /\ [][(bot.pc = "paused" /\ bot'.pc # "paused")
            => (bot'.consecutiveFailures = 0 /\ ~bot'.isTripped)]_vars
    /\ (bot.isTripped ~> (~bot.isTripped \/ ~bot.isRunning))

\* the breaker has tripped, the loop has paused and reset it, and the bot is
\* at the top of the loop again, still running
C33_Witness ==
    /\ bot.isRunning
    /\ bot.pc = "top"
    /\ bot.iteration.tripped
    /\ ~bot.isTripped
    /\ bot.consecutiveFailures = 0

-----------------------------------------------------------------------------
(* C36 *)

\* C36: in the Cloudflare D1 variant the rows of the table snapshots written
\* by successive invocations are at least SNAPSHOT_INTERVAL_MS apart, and an
\* invocation less than SNAPSHOT_INTERVAL_MS after the latest row inserts no
\* row and does not touch the daily aggregate.
C36_DurableRowsIntervalApart ==
    /\ \A i \in 1..(Len(worker.db.snapshots) - 1) :
          worker.db.snapshots[i + 1] - worker.db.snapshots[i] >= SNAPSHOT_INTERVAL_MS
    /\ \A j \in 1..Len(worker.invocations) :
          LET invocation == worker.invocations[j]
          IN (/\ invocation.lastDurable # 0
              /\ invocation.at - invocation.lastDurable < SNAPSHOT_INTERVAL_MS)
                => (~invocation.inserted /\ ~invocation.daily)

====
